---- MODULE Spec2Model ----
(***************************************************************************)
(* Model of crowdfund-server: the donation pipeline of routes/funds.ts     *)
(* (POST /:id/donate), the launch handoff and POST /:id/launch, and        *)
(* utils/solana.ts verifySolPayment.                                       *)
(*                                                                         *)
(* Amounts.  A JavaScript SOL amount is an integer number of "units";      *)
(* one lamport is UnitsPerLamport units, so a SOL amount can fall between  *)
(* two lamports and Math.floor(x * LAMPORTS_PER_SOL) is a real floor.      *)
(*                                                                         *)
(* Persistence.  Fund.findById returns a private copy of the stored        *)
(* document; doc.save() writes back only the paths whose value was changed *)
(* on that copy (Mongoose's delta update), not the whole document.         *)
(***************************************************************************)
EXTENDS Integers, Sequences, FiniteSets, TLC

\* ---------------------------------------------------------------- bounds
MaxCalls == 2          \* donate calls of Spec
MaxQueueCalls == 3     \* donate calls of SpecQueue
MaxLaunchReqs == 2     \* POST /:id/launch requests
MaxFaults == 1         \* launch attempts that an outside failure aborts
MaxCrashes == 1        \* launches a process restart kills
UnitsPerLamport == 2   \* resolution of a SOL amount below one lamport

\* ------------------------------------------------------ program constants
Concurrency == 2
MIN_DONATION == 2 * UnitsPerLamport
MAX_DONATION == 8 * UnitsPerLamport
TargetSolAmount == 5 * UnitsPerLamport
FeeTransferAmount == 10 * UnitsPerLamport
SolBuffer == 1

Callers == 1..MaxCalls
QueueCallers == 1..MaxQueueCalls
Tasks == Callers \cup QueueCallers
LaunchReqs == (MaxCalls + MaxQueueCalls + 1)..(MaxCalls + MaxQueueCalls + MaxLaunchReqs)
LaunchIds == Tasks \cup LaunchReqs
NoQueue == 0

\* ------------------------------------------------------------- conversions
\* balance / LAMPORTS_PER_SOL
SolOfLamports(l) == l * UnitsPerLamport
\* Math.floor(amountSol * LAMPORTS_PER_SOL)
LamportsOfSol(a) == a \div UnitsPerLamport

Max(a, b) == IF a >= b THEN a ELSE b
MinOf(S) == CHOOSE x \in S : \A y \in S : x <= y

\* ------------------------------------------------------------- the ledger
FundWallet == "fundW"
NoWallet == ""
Donors == {"d1", "d2"}
TxRefs == {"txA", "txB"}
FundId == "fund"

\* one parsed System Program transfer instruction
Transfer(src, dst, lamports) ==
  [parsed |-> TRUE, program |-> "system", type |-> "transfer",
   source |-> src, destination |-> dst, lamports |-> lamports]

\* the instructions of the transactions the donors put on the ledger
AmountA == 4 * UnitsPerLamport
AmountB == 6 * UnitsPerLamport
TxInstructions(x) ==
  IF x = "txA" THEN <<Transfer("d1", FundWallet, LamportsOfSol(AmountA))>>
  ELSE <<Transfer("d1", FundWallet, LamportsOfSol(AmountB))>>

RECURSIVE SumTo(_, _)
SumTo(instrs, dst) ==
  IF instrs = <<>> THEN 0
  ELSE (IF Head(instrs).parsed /\ Head(instrs).destination = dst
        THEN Head(instrs).lamports ELSE 0) + SumTo(Tail(instrs), dst)

\* ------------------------------------------------------- verifySolPayment
\* instructions.find(...): the index of the first parsed system transfer
\* from sender to receiver, 0 when there is none
IsTransferBetween(instr, sender, receiver) ==
  /\ instr.parsed
  /\ instr.type = "transfer"
  /\ instr.program = "system"
  /\ instr.source = sender
  /\ instr.destination = receiver

FindTransfer(instrs, sender, receiver) ==
  LET hits == {i \in 1..Len(instrs) : IsTransferBetween(instrs[i], sender, receiver)}
  IN IF hits = {} THEN 0 ELSE MinOf(hits)

\* variant: the amount comparison only asks for a non-empty transfer
LamportsPositive(lamports, requiredLamports) == lamports > 0

\* one pass of the loop body over an indexed transaction: "ok", or the error thrown
LamportsSuffice(lamports, requiredLamports) == ~(lamports < requiredLamports)

ScanTransaction(instrs, sender, receiver, requiredAmount) ==
  LET i == FindTransfer(instrs, sender, receiver)
  IN IF i = 0 THEN "noTransfer"
     ELSE IF ~LamportsSuffice(instrs[i].lamports, LamportsOfSol(requiredAmount))
          THEN "insufficient"
          ELSE "ok"

VARIABLES
  donationQueue,  \* the module-level queue: NoQueue, or the call that constructed it
  myQueue,        \* the queue each call obtained from getDonationQueue
  pc,             \* each donate call's position
  req,            \* each donate call's request body and :id
  loaded,         \* the fund document as Fund.findById returned it to the task
  fund,           \* the task's copy of the document, with its assignments
  balance,        \* the fund wallet balance the task read
  errorMessage,   \* the task's error slot
  responseData,   \* the task's result slot
  fundDb,         \* the stored Fund document
  users,          \* the stored User documents, by walletAddress
  fundLamports,   \* the fund wallet's balance on the ledger
  indexed,        \* the transactions the ledger has indexed
  pumpLamports,   \* the balance of each PumpPortal wallet, by the launch that created it
  launch,         \* each launch request / background launch: position and locals
  verify,         \* one verifySolPayment call followed poll by poll (SpecVerify)
  tokens,         \* the token accounts of the pump wallet and of the target wallet, by token
  create,         \* one POST /funds call after its fee payment was verified (SpecCreate)
  xfer,           \* one POST /:id/transfer call (SpecTransfer)
  loop,           \* one call of a retry helper, attempt by attempt
  conn            \* the cached ledger connection and the getConnection calls

queueVars == <<donationQueue, myQueue>>
docVars == <<loaded, fund, balance>>
slotVars == <<errorMessage, responseData>>
dbVars == <<fundDb, users>>
ledgerVars == <<fundLamports, indexed>>
donateVars == <<queueVars, pc, req, docVars, slotVars>>
launchVars == <<pumpLamports, launch>>
callVars == <<verify, create, xfer>>
utilVars == <<loop, conn>>
otherVars == <<callVars, tokens, utilVars>>

vars == <<donateVars, dbVars, ledgerVars, launchVars, otherVars>>

\* ------------------------------------------------------------ verify loop
maxRetries == 10

\* one iteration of the polling loop (attempt counted from 0). observation is
\* what getParsedTransaction gave: "absent" (null or slot 0), "indexed", or
\* "rpcError" (the call threw). Result: "true", "retry", or the error thrown
\* out of verifySolPayment: "notFound", "rpcError", "noTransfer", "insufficient".
VerifyAttempt(attempt, observation, instrs, sender, receiver, requiredAmount) ==
  LET lastAttempt == (attempt = maxRetries - 1)
      scan == ScanTransaction(instrs, sender, receiver, requiredAmount)
  IN IF observation = "rpcError" THEN (IF lastAttempt THEN "rpcError" ELSE "retry")
     ELSE IF observation = "absent" THEN (IF lastAttempt THEN "notFound" ELSE "retry")
     ELSE IF scan = "ok" THEN "true"
     ELSE IF lastAttempt THEN scan ELSE "retry"

\* the whole loop when every poll makes the same observation
RECURSIVE PollFrom(_, _, _, _, _, _)
PollFrom(attempt, observation, instrs, sender, receiver, requiredAmount) ==
  IF ~(attempt < maxRetries) THEN "unreachable"
  ELSE LET r == VerifyAttempt(attempt, observation, instrs, sender, receiver, requiredAmount)
       IN IF r = "retry"
          THEN PollFrom(attempt + 1, observation, instrs, sender, receiver, requiredAmount)
          ELSE r

verifySolPayment(txSignature, senderWallet, receiverWallet, requiredAmount, ledgerIndexed) ==
  PollFrom(0, IF txSignature \in ledgerIndexed THEN "indexed" ELSE "absent",
           TxInstructions(txSignature), senderWallet, receiverWallet, requiredAmount)

\* --------------------------------------------------------------- documents
NoFund == [status |-> "none"]
NoDoc == [status |-> "unread"]

NewFund(fee, img) ==
  [status |-> "active", currentDonatedSol |-> 0, initialFeePaid |-> fee,
   image |-> img, completedAt |-> 0, tokenAddress |-> 0, launchError |-> "",
   pumpPortalWalletPublicKey |-> 0, pumpPortalTransferCompleted |-> FALSE]

\* Fund.findById(id)
FindById(id, db) == IF id = FundId THEN db ELSE NoFund

\* a save that writes nothing to the store
SaveDocUnwritten(db, ld, doc) == db

\* doc.save(): $set of the paths modified on the copy since it was loaded.
\* launchStatus is not a path of FundSchema, so it is never among them.
SaveDoc(db, ld, doc) == [p \in DOMAIN db |-> IF doc[p] # ld[p] THEN doc[p] ELSE db[p]]

SchemaPaths == DOMAIN NewFund(0, TRUE)

\* the copy findById hands out: the schema paths, plus room for the ad-hoc
\* launchStatus property the handlers assign on it
DocOf(stored) == [p \in SchemaPaths \cup {"launchStatus"} |->
                   IF p \in SchemaPaths THEN stored[p] ELSE "undefined"]

\* doc.toJSON(): the schema paths of the copy
ToJSON(doc) == [p \in SchemaPaths |-> doc[p]]

NoUser == [exists |-> FALSE, name |-> "", totalDonatedSol |-> 0, donations |-> <<>>]

\* variant: $set of the donations in place of $push
CreditDonorReplacing(us, wallet, entry) ==
  [us EXCEPT ![wallet] = [@ EXCEPT !.exists = TRUE,
                                   !.totalDonatedSol = @ + entry.amount,
                                   !.donations = <<entry>>]]

\* User.findOneAndUpdate({walletAddress}, {$push: donations, $inc: totalDonatedSol}, {upsert})
CreditDonor(us, wallet, entry) ==
  [us EXCEPT ![wallet] = [@ EXCEPT !.exists = TRUE,
                                   !.totalDonatedSol = @ + entry.amount,
                                   !.donations = Append(@, entry)]]

\* ---------------------------------------------------------------- requests
Requests ==
  { [id |-> FundId, amount |-> AmountA, donorWallet |-> "d1", txSignature |-> "txA"],
    [id |-> FundId, amount |-> AmountB, donorWallet |-> "d1", txSignature |-> "txB"],
    [id |-> FundId, amount |-> AmountB, donorWallet |-> "d1", txSignature |-> "txA"],
    [id |-> FundId, amount |-> AmountA, donorWallet |-> "d2", txSignature |-> "txA"],
    [id |-> FundId, amount |-> MIN_DONATION - 1, donorWallet |-> "d1", txSignature |-> "txA"],
    [id |-> FundId, amount |-> MAX_DONATION + 1, donorWallet |-> "d1", txSignature |-> "txB"],
    [id |-> FundId, amount |-> AmountA, donorWallet |-> NoWallet, txSignature |-> "txA"],
    [id |-> "unknown", amount |-> AmountA, donorWallet |-> "d1", txSignature |-> "txA"] }
NoReq == [id |-> "", amount |-> 0, donorWallet |-> NoWallet, txSignature |-> ""]

GasReserves == {1, 2}

NoErr == ""
ErrMissing == "Donor wallet address and transaction signature are required"
ErrAmount == "Donation amount must be between MIN_DONATION and MAX_DONATION SOL"
ErrInvalidFund == "Invalid fund"
ErrCompleted == "Crowdfund is already completed. No further donations are accepted."
ErrFeeNotPaid == "Creation fee not yet paid. Please pay the creation fee first."
ErrVerify == "Transaction does not contain valid SOL transfer"
ErrBalance == "Fund wallet balance is less than expected"
ErrInsufficient == "Insufficient funds after reserving gas and buffer"
NoData == [status |-> "unset"]

Creator == "creator"
LaunchCallers == {Creator, "d2", NoWallet}
NoLaunch == [pc |-> "none", userWallet |-> NoWallet, doc |-> NoDoc, odoc |-> NoDoc,
             totalSolToTransferX100 |-> 0, wallet |-> 0, sent |-> 0, error |-> "",
             crashedAt |-> "", epoch |-> 0, response |-> 0,
             pumpBefore |-> 0, sentX100 |-> 0, transferAmount |-> 0]

\* ------------------------------------------------------------------- Init
NoVerify == [pc |-> "idle"]
NoCreate == [pc |-> "idle"]
NoXfer == <<>>

\* totalSupply * (targetPercentage / 100)
TargetShare == 2

\* no token is issued yet; buys is what solForCreation buys at the price of
\* the bonding curve
NoTokens(buys) == [buys |-> buys, held |-> [l \in LaunchIds |-> [pump |-> 0, target |-> 0, sent |-> 0]]]

\* no retry helper and no getConnection call is followed
NoLoop == [pc |-> "idle"]
NoConn == [pc |-> "idle"]
NoUtil == loop = NoLoop /\ conn = NoConn

\* no call of the other handlers is under way, and a creation buys more than
\* the target's share
NoOtherCalls ==
  tokens = NoTokens(TargetShare + 1) /\ create = NoCreate /\ xfer = NoXfer /\ NoUtil

\* no donate call and no launch has begun
NoCalls ==
  /\ donationQueue = NoQueue
  /\ myQueue = [t \in Tasks |-> NoQueue]
  /\ pc = [t \in Tasks |-> "idle"]
  /\ req = [t \in Tasks |-> NoReq]
  /\ loaded = [t \in Tasks |-> NoDoc]
  /\ fund = [t \in Tasks |-> NoDoc]
  /\ balance = [t \in Tasks |-> 0]
  /\ errorMessage = [t \in Tasks |-> NoErr]
  /\ responseData = [t \in Tasks |-> NoData]
  /\ users = [w \in Donors |-> NoUser]
  /\ indexed = {}
  /\ pumpLamports = [l \in LaunchIds |-> 0]
  /\ launch = [l \in LaunchIds |-> NoLaunch]

\* the fund as POST /funds leaves it: saved with initialFeePaid 0, then funded
\* with 99% of the creation fee; the image is optional
InitWith(paid, img) ==
  /\ NoCalls
  /\ fundDb = NewFund(IF paid THEN FeeTransferAmount ELSE 0, img)
  /\ fundLamports = IF paid THEN LamportsOfSol(FeeTransferAmount) ELSE 0

Init ==
  /\ \E paid \in BOOLEAN, img \in BOOLEAN : InitWith(paid, img)
  /\ verify = NoVerify
  /\ NoOtherCalls

\* ------------------------------------------------------------ the p-queue
Executing == {"gas", "findFund", "verify", "getBalance", "credit", "save"}
Running(q) == {t \in Tasks : myQueue[t] = q /\ pc[t] \in Executing}
Waiting(q) == {t \in Tasks : myQueue[t] = q /\ pc[t] = "queued"}

\* queue.add(fn): fn starts at once when fewer than `concurrency` run
HasFreeSlot(q) == Cardinality(Running(q)) < Concurrency

\* the task of call t settles (newpc): its queue starts the next waiting task
Settle(t, newpc) ==
  LET w == Waiting(myQueue[t])
      p == [pc EXCEPT ![t] = newpc]
  IN IF w = {} THEN p ELSE [p EXCEPT ![MinOf(w)] = "gas"]

\* the task returns and leaves errorMessage as it was
RejectSilently(t, msg) ==
  /\ errorMessage' = errorMessage
  /\ pc' = Settle(t, "done")

\* the task returns with errorMessage set
Reject(t, msg) ==
  /\ errorMessage' = [errorMessage EXCEPT ![t] = msg]
  /\ pc' = Settle(t, "done")

\* the task's closure is gone once it has settled
Dropped(t) ==
  /\ loaded' = [loaded EXCEPT ![t] = NoDoc]
  /\ fund' = [fund EXCEPT ![t] = NoDoc]
  /\ balance' = [balance EXCEPT ![t] = 0]

\* ------------------------------------------------------------ the ledger
\* a donor's transaction is indexed by the ledger
LedgerIndex(x) ==
  /\ x \notin indexed
  /\ indexed' = indexed \cup {x}
  /\ fundLamports' = fundLamports + SumTo(TxInstructions(x), FundWallet)
  /\ UNCHANGED <<donateVars, dbVars, launchVars, otherVars>>

\* ------------------------------------------------- POST /:id/donate
\* the handler runs up to `await getDonationQueue()` and, when the queue
\* exists, on to donationQueue.add(task)
Donate(t, r) ==
  /\ pc[t] = "idle"
  /\ \A u \in Tasks : u < t => pc[u] # "idle"
  /\ req' = [req EXCEPT ![t] = r]
  /\ IF donationQueue = NoQueue
     THEN /\ pc' = [pc EXCEPT ![t] = "import"]
          /\ UNCHANGED myQueue
     ELSE /\ myQueue' = [myQueue EXCEPT ![t] = donationQueue]
          /\ pc' = [pc EXCEPT ![t] = IF HasFreeSlot(donationQueue) THEN "gas" ELSE "queued"]
  /\ UNCHANGED <<donationQueue, docVars, slotVars, dbVars, ledgerVars, launchVars, otherVars>>

\* `await import("p-queue")` resolves: construct a queue, publish it, add the task
ImportResolved(t) ==
  /\ pc[t] = "import"
  /\ donationQueue' = t
  /\ myQueue' = [myQueue EXCEPT ![t] = t]
  /\ pc' = [pc EXCEPT ![t] = "gas"]
  /\ UNCHANGED <<req, docVars, slotVars, dbVars, ledgerVars, launchVars, otherVars>>

\* variant: the range check forgets the upper limit
AmountBelowMin(amount) == amount < MIN_DONATION

MissingFields(r) == r.donorWallet = NoWallet \/ r.txSignature = ""
AmountOutOfRange(amount) == amount < MIN_DONATION \/ amount > MAX_DONATION

\* calculateGasFeeReserve resolved: the field and amount checks, then findById
Validate(t) ==
  /\ pc[t] = "gas"
  /\ IF MissingFields(req[t]) THEN Reject(t, ErrMissing)
     ELSE IF AmountOutOfRange(req[t].amount) THEN Reject(t, ErrAmount)
     ELSE /\ pc' = [pc EXCEPT ![t] = "findFund"]
          /\ UNCHANGED errorMessage
  /\ UNCHANGED <<queueVars, req, docVars, responseData, dbVars, ledgerVars, launchVars, otherVars>>

\* variant: the completed check compares against a status that does not exist
IsCompletedMisspelt(doc) == doc.status = "complete"

IsCompleted(doc) == doc.status = "completed"

\* Fund.findById resolved: the fund, completed and fee checks, then verifySolPayment
FindFund(t) ==
  /\ pc[t] = "findFund"
  /\ LET f == FindById(req[t].id, fundDb)
     IN IF f = NoFund THEN Reject(t, ErrInvalidFund) /\ UNCHANGED <<loaded, fund>>
        ELSE IF IsCompleted(f) THEN Reject(t, ErrCompleted) /\ UNCHANGED <<loaded, fund>>
        ELSE IF f.initialFeePaid = 0 THEN Reject(t, ErrFeeNotPaid) /\ UNCHANGED <<loaded, fund>>
        ELSE /\ loaded' = [loaded EXCEPT ![t] = DocOf(f)]
             /\ fund' = [fund EXCEPT ![t] = DocOf(f)]
             /\ pc' = [pc EXCEPT ![t] = "verify"]
             /\ UNCHANGED errorMessage
  /\ UNCHANGED <<queueVars, req, balance, responseData, dbVars, ledgerVars, launchVars, otherVars>>

\* verifySolPayment settled: a false result is reported in the error slot, a
\* thrown error rejects the task; on true, connection.confirmTransaction and
\* then getBalance are awaited
VerifyPayment(t) ==
  /\ pc[t] = "verify"
  /\ LET paymentValid == verifySolPayment(req[t].txSignature, req[t].donorWallet,
                                          FundWallet, req[t].amount, indexed)
     IN IF paymentValid = "true"
        THEN pc' = [pc EXCEPT ![t] = "getBalance"] /\ UNCHANGED <<errorMessage, docVars>>
        ELSE IF paymentValid = "false" THEN Reject(t, ErrVerify) /\ Dropped(t)
        ELSE pc' = Settle(t, "threw") /\ Dropped(t) /\ UNCHANGED errorMessage
  /\ UNCHANGED <<queueVars, req, responseData, dbVars, ledgerVars, launchVars, otherVars>>

\* the whole balance is taken as donated, the creation fee included
NewCurrentDonatedSolWithFee(walletBalance, initialFeePaid) == walletBalance

\* newCurrentDonatedSol = Math.max(0, balance - fund.initialFeePaid)
NewCurrentDonatedSol(walletBalance, initialFeePaid) == Max(0, walletBalance - initialFeePaid)

\* getBalance resolved: currentDonatedSol is re-derived on the copy, and
\* User.findOneAndUpdate is issued
GetBalance(t) ==
  /\ pc[t] = "getBalance"
  /\ balance' = [balance EXCEPT ![t] = SolOfLamports(fundLamports)]
  /\ fund' = [fund EXCEPT ![t].currentDonatedSol =
                NewCurrentDonatedSol(balance'[t], fund[t].initialFeePaid)]
  /\ pc' = [pc EXCEPT ![t] = "credit"]
  /\ UNCHANGED <<queueVars, req, loaded, slotVars, dbVars, ledgerVars, launchVars, otherVars>>

\* variant: the target is compared with the balance, the creation fee included
TargetReachedWithFee(currentDonatedSol, totalTarget) ==
  currentDonatedSol + FeeTransferAmount >= totalTarget

TargetReached(currentDonatedSol, totalTarget) == currentDonatedSol >= totalTarget

\* variant: the 1% buffer is not taken off
TotalSolWithoutBuffer(donatedSol, initialFeePaid) ==
  100 * donatedSol + (100 * initialFeePaid - 30 * initialFeePaid)

\* 100 * totalSolToTransfer: donatedSol less its 1% buffer, plus the 70% of
\* initialFeePaid that is not kept in the fund wallet
TotalSolToTransferX100(donatedSol, initialFeePaid) ==
  (100 * donatedSol - donatedSol) + (100 * initialFeePaid - 30 * initialFeePaid)

\* findOneAndUpdate resolved (the donor is credited); then the target check,
\* and on crossing the balance and allocation checks, up to `await fund.save()`
Credit(t) ==
  /\ pc[t] = "credit"
  /\ users' = CreditDonor(users, req[t].donorWallet,
                          [id |-> t, fundId |-> FundId, amount |-> req[t].amount])
  /\ IF TargetReached(fund[t].currentDonatedSol, TargetSolAmount)
     THEN \E gasFeeReserve \in GasReserves :
            LET expectedBalance == fund[t].initialFeePaid + fund[t].currentDonatedSol
            IN IF balance[t] < expectedBalance - gasFeeReserve
               THEN Reject(t, ErrBalance) /\ Dropped(t)
               ELSE IF TotalSolToTransferX100(fund[t].currentDonatedSol,
                                              fund[t].initialFeePaid) <= 0
                    THEN Reject(t, ErrInsufficient) /\ Dropped(t)
                    ELSE /\ fund' = [fund EXCEPT ![t].status = "completed",
                                                 ![t].completedAt = t,
                                                 ![t].launchStatus = "pending"]
                         /\ pc' = [pc EXCEPT ![t] = "save"]
                         /\ UNCHANGED <<errorMessage, loaded, balance>>
     ELSE /\ pc' = [pc EXCEPT ![t] = "save"]
          /\ UNCHANGED <<docVars, errorMessage>>
  /\ UNCHANGED <<queueVars, req, responseData, fundDb, ledgerVars, launchVars, otherVars>>

\* fund.save() resolved: the result slot is filled; on crossing the background
\* launch is scheduled with setImmediate; the task returns
SaveFund(t) ==
  /\ pc[t] = "save"
  /\ fundDb' = SaveDoc(fundDb, loaded[t], fund[t])
  /\ responseData' = [responseData EXCEPT ![t] = ToJSON(fund[t])]
  /\ launch' = IF IsCompleted(fund[t])
               THEN [launch EXCEPT ![t].pc = "scheduled",
                                   ![t].totalSolToTransferX100 =
                                      TotalSolToTransferX100(fund[t].currentDonatedSol,
                                                             fund[t].initialFeePaid)]
               ELSE launch
  /\ pc' = Settle(t, "done")
  /\ Dropped(t)
  /\ UNCHANGED <<queueVars, req, errorMessage, users, ledgerVars, pumpLamports, otherVars>>

\* an awaited store or ledger call rejects: the task rejects with it
AwaitRejects(t) ==
  /\ pc[t] \in {"findFund", "verify", "getBalance", "credit", "save"}
  /\ pc' = Settle(t, "threw")
  /\ Dropped(t)
  /\ UNCHANGED <<queueVars, req, slotVars, dbVars, ledgerVars, launchVars, otherVars>>

\* the response written once `await donationQueue.add(...)` has resolved: 400
\* with the error slot, else 200 with the result slot, else the handler throws
\* and the error middleware answers 500
Respond(err, data) ==
  IF err # NoErr THEN 400 ELSE IF data # NoData THEN 200 ELSE 500

\* the status call t has answered with; 0 while its task is queued or running
ResponseOf(t) ==
  IF pc[t] = "done" THEN Respond(errorMessage[t], responseData[t])
  ELSE IF pc[t] = "threw" THEN 500 ELSE 0

\* ------------------------------------------------- POST /:id/launch
\* the handler runs up to `await Fund.findById(id).populate(...)`
LaunchRequest(m, userWallet) ==
  /\ launch[m].pc = "none"
  /\ \A n \in LaunchReqs : n < m => launch[n].pc # "none"
  /\ launch' = [launch EXCEPT ![m].pc = IF userWallet = NoWallet THEN "refused" ELSE "find",
                              ![m].userWallet = userWallet,
                              ![m].epoch = Cardinality({l \in LaunchIds :
                                                         launch[l].pc = "crashed"}),
                              ![m].response = IF userWallet = NoWallet THEN 400 ELSE 0]
  /\ UNCHANGED <<donateVars, dbVars, ledgerVars, pumpLamports, otherVars>>

\* variant: the creator check is missing
LaunchRefusalAnyCaller(doc, userWallet) ==
  IF doc.status # "completed" THEN 400
  ELSE IF doc.tokenAddress # 0 THEN 400
  ELSE IF ~doc.image THEN 400
  ELSE 0

\* the guards of the launch handler, in order: the status of the refusal, 0 when accepted
LaunchRefusal(doc, userWallet) ==
  IF userWallet # Creator THEN 403
  ELSE IF doc.status # "completed" THEN 400
  ELSE IF doc.tokenAddress # 0 THEN 400
  ELSE IF ~doc.image THEN 400
  ELSE 0

\* 100 * totalSolToTransfer of the manual launch: donatedSol plus 70% of initialFeePaid
ManualTotalSolToTransferX100(donatedSol, initialFeePaid) ==
  100 * donatedSol + (100 * initialFeePaid - 30 * initialFeePaid)

\* findById resolved: the guards; launchStatus = "pending" on the copy; `await fund.save()`
LaunchCheck(m) ==
  /\ launch[m].pc = "find"
  /\ LET doc == DocOf(fundDb)
         refusal == LaunchRefusal(doc, launch[m].userWallet)
     IN launch' = IF refusal # 0
                  THEN [launch EXCEPT ![m].pc = "refused", ![m].response = refusal]
                  ELSE [launch EXCEPT ![m].pc = "save",
                                      ![m].doc = doc,
                                      ![m].totalSolToTransferX100 =
                                         ManualTotalSolToTransferX100(doc.currentDonatedSol,
                                                                      doc.initialFeePaid)]
  /\ UNCHANGED <<donateVars, dbVars, ledgerVars, pumpLamports, otherVars>>

\* save resolved (no schema path was modified): 202, and the background launch is scheduled
LaunchAccepted(m) ==
  /\ launch[m].pc = "save"
  /\ fundDb' = SaveDoc(fundDb, launch[m].doc, [launch[m].doc EXCEPT !.launchStatus = "pending"])
  /\ launch' = [launch EXCEPT ![m].pc = "scheduled", ![m].response = 202]
  /\ UNCHANGED <<donateVars, users, ledgerVars, pumpLamports, otherVars>>

\* ------------------------------------------- the background launch callback
ErrNoImage == "Image is required for token creation on Pump.fun"
ErrLaunch == "error thrown by an awaited ledger, store or PumpPortal call"
ErrInvalidInput == "Invalid input"
ErrFundShort == "Insufficient funds in fundWallet"
ErrPumpShort == "Insufficient SOL in pump wallet"
ErrIssue == "Token creation verification failed after max retries"
ErrSolVerify == "SOL transfer verification to pump wallet condition not met"
ErrTokenHolding == "Token balance verification for pump wallet ATA condition not met"
ErrTokenVerify == "Token transfer verification to target wallet ATA condition not met"

\* catch: Fund.findById, launchError and launchStatus = "failed" on that copy, save
PersistFailure(db, msg) ==
  SaveDoc(db, DocOf(db), [DocOf(db) EXCEPT !.launchError = msg, !.launchStatus = "failed"])

\* the launch l ends in the callback's catch with the error msg
Failed(l, msg) == [launch EXCEPT ![l].pc = "failed", ![l].error = msg]

\* the setImmediate callback starts: Fund.findById; the automatic launch fails
\* here without an image; otherwise createAndLaunchTokenWithLightning is called
LaunchStart(l) ==
  /\ launch[l].pc = "scheduled"
  /\ IF l \in Tasks /\ ~fundDb.image
     THEN /\ fundDb' = PersistFailure(fundDb, ErrNoImage)
          /\ launch' = Failed(l, ErrNoImage)
     ELSE /\ launch' = [launch EXCEPT ![l].pc = "orch", ![l].doc = DocOf(fundDb)]
          /\ UNCHANGED fundDb
  /\ UNCHANGED <<donateVars, users, ledgerVars, pumpLamports, otherVars>>

\* the three PumpPortal fields are stored together; the public key stands for them
HasWalletDetails(doc) == doc.pumpPortalWalletPublicKey # 0

\* createAndLaunchTokenWithLightning: Fund.findById; the stored PumpPortal
\* wallet is reused, or GET create-wallet is requested
OrchAcquire(l) ==
  /\ launch[l].pc = "orch"
  /\ LET f == DocOf(fundDb)
     IN launch' = IF HasWalletDetails(f)
                  THEN [launch EXCEPT ![l].pc = "fund", ![l].odoc = f,
                                      ![l].wallet = f.pumpPortalWalletPublicKey]
                  ELSE [launch EXCEPT ![l].pc = "wallet", ![l].odoc = f]
  /\ UNCHANGED <<donateVars, dbVars, ledgerVars, pumpLamports, otherVars>>

\* create-wallet answered: the new wallet's details go on the copy and are saved
OrchWalletCreated(l) ==
  /\ launch[l].pc = "wallet"
  /\ LET f == [launch[l].odoc EXCEPT !.pumpPortalWalletPublicKey = l]
     IN /\ fundDb' = SaveDoc(fundDb, launch[l].odoc, f)
        /\ launch' = [launch EXCEPT ![l].pc = "fund", ![l].odoc = f, ![l].wallet = l]
  /\ UNCHANGED <<donateVars, users, ledgerVars, pumpLamports, otherVars>>

\* calculateSolForPump throws "Invalid input" before it computes anything
InvalidInput(donatedSolX100, initialFeePaid, targetSol) ==
  donatedSolX100 < 0 \/ initialFeePaid < 0 \/ targetSol <= 0

\* calculateSolForPump, times 100: solForCreation capped at targetSol, plus 70% of the fee
Min(a, b) == IF a <= b THEN a ELSE b
SolForCreationX100(donatedSolX100, targetSol) == Min(donatedSolX100, 100 * targetSol)
TotalSolForPumpX100(donatedSolX100, initialFeePaid, targetSol) ==
  SolForCreationX100(donatedSolX100, targetSol) + (100 * initialFeePaid - 30 * initialFeePaid)

\* 100 * maxTransfer: the fund wallet balance less the 30% of the fee it keeps
MaxTransferX100(fundWalletBalance, initialFeePaid) ==
  100 * fundWalletBalance - 30 * initialFeePaid

\* fund.currentDonatedSol || totalSolToTransfer, times 100
DonatedSolX100(l) ==
  IF launch[l].odoc.currentDonatedSol # 0
  THEN 100 * launch[l].odoc.currentDonatedSol
  ELSE launch[l].totalSolToTransferX100

\* 100 * totalSolForPump of the launch l
TotalForX100(l) ==
  TotalSolForPumpX100(DonatedSolX100(l), launch[l].doc.initialFeePaid, TargetSolAmount)

\* the pump wallet balance is short of totalSolForPump - solBuffer
PumpShort(pumpWalletBalance, totalX100) == 100 * pumpWalletBalance < totalX100 - 100 * SolBuffer

\* variant: the flag is not consulted
TransferNeededByBalance(transferCompleted, pumpWalletBalance, totalX100) ==
  PumpShort(pumpWalletBalance, totalX100)

\* the transfer of Step 1 is due: the flag is unset on the copy and the pump wallet is short
TransferNeeded(transferCompleted, pumpWalletBalance, totalX100) ==
  ~transferCompleted /\ PumpShort(pumpWalletBalance, totalX100)

\* Step 1: both balances are read; when the transfer is due, maxTransfer is
\* sent from the fund wallet to the pump wallet (or the step throws)
OrchFund(l) ==
  /\ launch[l].pc = "fund"
  /\ LET w == launch[l].wallet
         pumpWalletBalance == SolOfLamports(pumpLamports[w])
         fundWalletBalance == SolOfLamports(fundLamports)
         transferX100 == MaxTransferX100(fundWalletBalance, launch[l].doc.initialFeePaid)
         lamports == transferX100 \div (100 * UnitsPerLamport)
     IN IF InvalidInput(DonatedSolX100(l), launch[l].doc.initialFeePaid, TargetSolAmount)
        THEN /\ fundDb' = PersistFailure(fundDb, ErrInvalidInput)
             /\ launch' = Failed(l, ErrInvalidInput)
             /\ UNCHANGED <<fundLamports, pumpLamports>>
        ELSE IF ~TransferNeeded(launch[l].odoc.pumpPortalTransferCompleted,
                                pumpWalletBalance, TotalForX100(l))
        THEN /\ launch' = [launch EXCEPT ![l].pc = "check"]
             /\ UNCHANGED <<fundDb, fundLamports, pumpLamports>>
        ELSE IF transferX100 <= 0 \/ 100 * fundWalletBalance < transferX100
        THEN /\ fundDb' = PersistFailure(fundDb, ErrFundShort)
             /\ launch' = Failed(l, ErrFundShort)
             /\ UNCHANGED <<fundLamports, pumpLamports>>
        ELSE /\ fundLamports' = fundLamports - lamports
             /\ pumpLamports' = [pumpLamports EXCEPT ![w] = @ + lamports]
             /\ launch' = [launch EXCEPT ![l].pc = "flag", ![l].sent = lamports,
                                         ![l].sentX100 = transferX100,
                                         ![l].pumpBefore = pumpLamports[w]]
             /\ UNCHANGED fundDb
  /\ UNCHANGED <<donateVars, users, indexed, otherVars>>

\* variant: the balance read back is not compared
TransferVerifiedUnchecked(balanceRead, pumpWalletBalance, transferAmountX100) == TRUE

\* the condition waitWithRetries polls for: the balance, in SOL, is the balance
\* before plus transferAmount
TransferVerified(balanceRead, pumpWalletBalance, transferAmountX100) ==
  100 * balanceRead >= 100 * pumpWalletBalance + transferAmountX100

\* the transfer is confirmed and the polls of the pump wallet balance end:
\* pumpPortalTransferCompleted = true on the copy and save, or the last poll throws
OrchFlagSaved(l) ==
  /\ launch[l].pc = "flag"
  /\ LET f == [launch[l].odoc EXCEPT !.pumpPortalTransferCompleted = TRUE]
     IN IF TransferVerified(SolOfLamports(pumpLamports[launch[l].wallet]),
                            SolOfLamports(launch[l].pumpBefore), launch[l].sentX100)
        THEN /\ fundDb' = SaveDoc(fundDb, launch[l].odoc, f)
             /\ launch' = [launch EXCEPT ![l].pc = "check", ![l].odoc = f]
        ELSE /\ fundDb' = PersistFailure(fundDb, ErrSolVerify)
             /\ launch' = Failed(l, ErrSolVerify)
  /\ UNCHANGED <<donateVars, users, ledgerVars, pumpLamports, otherVars>>

\* the balance check before creation
OrchBalanceCheck(l) ==
  /\ launch[l].pc = "check"
  /\ IF PumpShort(SolOfLamports(pumpLamports[launch[l].wallet]), TotalForX100(l))
     THEN /\ fundDb' = PersistFailure(fundDb, ErrPumpShort)
          /\ launch' = Failed(l, ErrPumpShort)
     ELSE /\ launch' = [launch EXCEPT ![l].pc = "issue"]
          /\ UNCHANGED fundDb
  /\ UNCHANGED <<donateVars, users, ledgerVars, pumpLamports, otherVars>>

\* Step 2: the token is created and solForCreation is spent from the pump
\* wallet, which receives the tokens bought; when the wallet cannot pay, the
\* creation is never confirmed and waitWithRetries throws
OrchIssue(l) ==
  /\ launch[l].pc = "issue"
  /\ LET spent == SolForCreationX100(DonatedSolX100(l), TargetSolAmount)
                  \div (100 * UnitsPerLamport)
         w == launch[l].wallet
     IN IF pumpLamports[w] < spent
        THEN /\ fundDb' = PersistFailure(fundDb, ErrIssue)
             /\ launch' = Failed(l, ErrIssue)
             /\ UNCHANGED <<pumpLamports, tokens>>
        ELSE /\ pumpLamports' = [pumpLamports EXCEPT ![w] = @ - spent]
             /\ tokens' = [tokens EXCEPT !.held[l].pump = tokens.buys]
             /\ launch' = [launch EXCEPT ![l].pc = "distribute"]
             /\ UNCHANGED fundDb
  /\ UNCHANGED <<donateVars, users, ledgerVars, callVars, utilVars>>

\* variant: the whole holding is sent
DistributeWholeHolding(boughtAmount, expectedAmount) == boughtAmount

\* Step 3, transferAmount: the pump wallet's holding, capped at the target's share
DistributeAmount(boughtAmount, expectedAmount) == Min(boughtAmount, expectedAmount)

\* Step 3: the pump wallet's token account is polled for a holding, and
\* transferAmount is transferred to the target wallet's token account
OrchDistribute(l) ==
  /\ launch[l].pc = "distribute"
  /\ LET transferAmount == DistributeAmount(tokens.held[l].pump, TargetShare)
     IN IF tokens.held[l].pump = 0 \/ transferAmount > tokens.held[l].pump
        THEN /\ fundDb' = PersistFailure(fundDb, ErrTokenHolding)
             /\ launch' = Failed(l, ErrTokenHolding)
             /\ UNCHANGED tokens
        ELSE /\ tokens' = [tokens EXCEPT !.held[l].pump = @ - transferAmount,
                                          !.held[l].target = @ + transferAmount,
                                          !.held[l].sent = @ + transferAmount]
             /\ launch' = [launch EXCEPT ![l].pc = "distributed",
                                         ![l].transferAmount = transferAmount]
             /\ UNCHANGED fundDb
  /\ UNCHANGED <<donateVars, users, ledgerVars, pumpLamports, callVars, utilVars>>

\* the polls of the target's token account end: it holds exactly
\* transferAmount, or the last poll throws
OrchVerified(l) ==
  /\ launch[l].pc = "distributed"
  /\ IF tokens.held[l].target = launch[l].transferAmount
     THEN /\ launch' = [launch EXCEPT ![l].pc = "sweep"]
          /\ UNCHANGED fundDb
     ELSE /\ fundDb' = PersistFailure(fundDb, ErrTokenVerify)
          /\ launch' = Failed(l, ErrTokenVerify)
  /\ UNCHANGED <<donateVars, users, ledgerVars, pumpLamports, otherVars>>

\* the pump wallet is swept, the orchestrator returns, and the callback stores
\* the token address and the wallet details on its copy, clears launchError
\* and saves
LaunchSucceed(l) ==
  /\ launch[l].pc = "sweep"
  /\ fundDb' = SaveDoc(fundDb, launch[l].doc,
                       [launch[l].doc EXCEPT !.tokenAddress = l,
                                             !.pumpPortalWalletPublicKey = launch[l].wallet,
                                             !.launchError = "",
                                             !.launchStatus = "completed"])
  /\ pumpLamports' = [pumpLamports EXCEPT ![launch[l].wallet] = 0]
  /\ launch' = [launch EXCEPT ![l].pc = "completed"]
  /\ UNCHANGED <<donateVars, users, ledgerVars, otherVars>>

InOrchestrator ==
  {"orch", "wallet", "fund", "flag", "check", "issue", "distribute", "distributed", "sweep"}
Faults == {l \in LaunchIds : launch[l].pc = "failed" /\ launch[l].error = ErrLaunch}

\* an awaited call of the orchestrator throws: the callback's catch persists the failure
LaunchFail(l) ==
  /\ launch[l].pc \in InOrchestrator
  /\ Cardinality(Faults) < MaxFaults
  /\ fundDb' = PersistFailure(fundDb, ErrLaunch)
  /\ launch' = Failed(l, ErrLaunch)
  /\ UNCHANGED <<donateVars, users, ledgerVars, pumpLamports, otherVars>>

\* the process restarts: every pending launch request and background launch is
\* gone, the store and the ledger stay as they are
Alive == {"find", "save", "scheduled"} \cup InOrchestrator
Crash ==
  /\ \E l \in LaunchIds : launch[l].pc \in Alive
  /\ Cardinality({l \in LaunchIds : launch[l].pc = "crashed"}) < MaxCrashes
  /\ launch' = [l \in LaunchIds |->
                  IF launch[l].pc \in Alive
                  THEN [launch[l] EXCEPT !.pc = "crashed", !.crashedAt = launch[l].pc]
                  ELSE launch[l]]
  /\ UNCHANGED <<donateVars, dbVars, ledgerVars, pumpLamports, otherVars>>

DonateNext(callers, requests, txs) ==
  \/ \E x \in txs : LedgerIndex(x)
  \/ \E t \in callers, r \in requests : Donate(t, r)
  \/ \E t \in Tasks : ImportResolved(t)
  \/ \E t \in Tasks : Validate(t)
  \/ \E t \in Tasks : FindFund(t)
  \/ \E t \in Tasks : VerifyPayment(t)
  \/ \E t \in Tasks : GetBalance(t)
  \/ \E t \in Tasks : Credit(t)
  \/ \E t \in Tasks : SaveFund(t)
  \/ \E t \in Tasks : AwaitRejects(t)

ManualNext ==
  \/ \E m \in LaunchReqs, w \in LaunchCallers : LaunchRequest(m, w)
  \/ \E m \in LaunchReqs : LaunchCheck(m)
  \/ \E m \in LaunchReqs : LaunchAccepted(m)

\* the steps of a background launch
LaunchStep(l) ==
  \/ LaunchStart(l)
  \/ OrchAcquire(l)
  \/ OrchWalletCreated(l)
  \/ OrchFund(l)
  \/ OrchFlagSaved(l)
  \/ OrchBalanceCheck(l)
  \/ OrchIssue(l)
  \/ OrchDistribute(l)
  \/ OrchVerified(l)
  \/ LaunchSucceed(l)

CallbackNext ==
  \/ \E l \in LaunchIds : LaunchStep(l)
  \/ \E l \in LaunchIds : LaunchFail(l)

\* the donation pipeline with the launches it hands off
Next == DonateNext(Callers, Requests, TxRefs) \/ CallbackNext

Spec == Init /\ [][Next]_vars

\* ------------------------------------------------------------- SpecQueue
\* more concurrent donate calls than the queue admits, on a fund below its target
QueueRequests == {r \in Requests : r.id = FundId /\ r.donorWallet = "d1"
                                   /\ r.txSignature = "txA" /\ r.amount <= AmountA}
NextQueue == DonateNext(QueueCallers, QueueRequests, {"txA"})

SpecQueue == Init /\ [][NextQueue]_vars

\* --------------------------------------------------------- SpecSingletons
\* the donate calls of SpecQueue together with their calls of getConnection
\* getConnection(), synchronous: the first call constructs the Connection and
\* stores it in the module variable, every call returns the stored one
GetConnection(t) ==
  /\ IF conn = NoConn THEN TRUE ELSE t \notin DOMAIN conn.got
  /\ conn' = IF conn = NoConn
             THEN [pc |-> "set", instance |-> t, built |-> 1, got |-> (t :> t)]
             ELSE [conn EXCEPT !.got = @ @@ (t :> conn.instance)]
  /\ UNCHANGED <<donateVars, dbVars, ledgerVars, launchVars, callVars, tokens, loop>>

NextSingletons == NextQueue \/ \E t \in QueueCallers : GetConnection(t)

SpecSingletons == Init /\ [][NextSingletons]_vars

\* ------------------------------------------------------------ SpecLaunch
\* POST /:id/launch and the background launches, from a state in which a
\* donation crossed the target and scheduled the automatic launch: either the
\* donations of AmountA and AmountB were processed in turn and the second one
\* crossed (both), or the one donation of AmountB crossed
RequestA == [id |-> FundId, amount |-> AmountA, donorWallet |-> "d1", txSignature |-> "txA"]
RequestB == [id |-> FundId, amount |-> AmountB, donorWallet |-> "d1", txSignature |-> "txB"]
CrossedDonated(both) == IF both THEN AmountA + AmountB ELSE AmountB
CrossingTask(both) == IF both THEN 2 ELSE 1
CrossedFund(img, both) ==
  [NewFund(FeeTransferAmount, img) EXCEPT !.status = "completed",
                                          !.currentDonatedSol = CrossedDonated(both),
                                          !.completedAt = CrossingTask(both)]
Crossed(img, both) ==
  LET last == CrossingTask(both)
      entryA == [id |-> 1, fundId |-> FundId, amount |-> AmountA]
      entryB == [id |-> last, fundId |-> FundId, amount |-> AmountB]
      nobody == [w \in Donors |-> NoUser]
  IN
  /\ donationQueue = 1
  /\ myQueue = [t \in Tasks |-> IF t <= last THEN 1 ELSE NoQueue]
  /\ pc = [t \in Tasks |-> IF t <= last THEN "done" ELSE "idle"]
  /\ req = [t \in Tasks |-> IF t = last THEN RequestB
                            ELSE IF t < last THEN RequestA ELSE NoReq]
  /\ loaded = [t \in Tasks |-> NoDoc]
  /\ fund = [t \in Tasks |-> NoDoc]
  /\ balance = [t \in Tasks |-> 0]
  /\ errorMessage = [t \in Tasks |-> NoErr]
  /\ responseData = [t \in Tasks |->
       IF t = last THEN CrossedFund(img, both)
       ELSE IF t < last
            THEN [NewFund(FeeTransferAmount, img) EXCEPT !.currentDonatedSol = AmountA]
            ELSE NoData]
  /\ fundDb = CrossedFund(img, both)
  /\ users = IF both THEN CreditDonor(CreditDonor(nobody, "d1", entryA), "d1", entryB)
             ELSE CreditDonor(nobody, "d1", entryB)
  /\ indexed = IF both THEN TxRefs ELSE {"txB"}
  /\ fundLamports = LamportsOfSol(FeeTransferAmount) + LamportsOfSol(CrossedDonated(both))
  /\ pumpLamports = [l \in LaunchIds |-> 0]
  /\ launch = [l \in LaunchIds |->
       IF l = last THEN [NoLaunch EXCEPT !.pc = "scheduled",
                                         !.totalSolToTransferX100 =
                                            TotalSolToTransferX100(CrossedDonated(both),
                                                                   FeeTransferAmount)]
       ELSE NoLaunch]

\* ... or from the fund as POST /funds left it, still active
InitLaunch ==
  /\ \E img \in BOOLEAN : (\E both \in BOOLEAN : Crossed(img, both)) \/ InitWith(TRUE, img)
  /\ verify = NoVerify
  /\ NoOtherCalls

NextLaunch == ManualNext \/ CallbackNext \/ Crash

SpecLaunch == InitLaunch /\ [][NextLaunch]_vars

\* the launches without restarts, every launch step taken when it can be:
\* the event loop runs each resolved continuation
NextRetry == ManualNext \/ CallbackNext
SpecRetry ==
  /\ InitLaunch
  /\ [][NextRetry]_vars
  /\ \A l \in LaunchIds : WF_vars(LaunchStep(l))
  /\ \A m \in LaunchReqs : WF_vars(LaunchCheck(m) \/ LaunchAccepted(m))

\* ------------------------------------------------------------- SpecStale
\* the launches of a fund that the crossing call has just completed, while
\* the next call, which presented the same transfer and loaded the fund
\* before the crossing call saved it, is waiting for getBalance
StaleCall == CrossingTask(TRUE) + 1
StaleFund == [NewFund(FeeTransferAmount, TRUE) EXCEPT !.currentDonatedSol = AmountA]
InitStale ==
  LET last == CrossingTask(TRUE)
      entryA == [id |-> 1, fundId |-> FundId, amount |-> AmountA]
      entryB == [id |-> last, fundId |-> FundId, amount |-> AmountB]
      nobody == [w \in Donors |-> NoUser]
  IN
  /\ donationQueue = 1
  /\ myQueue = [t \in Tasks |-> IF t <= StaleCall THEN 1 ELSE NoQueue]
  /\ pc = [t \in Tasks |-> IF t = StaleCall THEN "getBalance"
                           ELSE IF t < StaleCall THEN "done" ELSE "idle"]
  /\ req = [t \in Tasks |-> IF t < last THEN RequestA
                            ELSE IF t <= StaleCall THEN RequestB ELSE NoReq]
  /\ loaded = [t \in Tasks |-> IF t = StaleCall THEN DocOf(StaleFund) ELSE NoDoc]
  /\ fund = [t \in Tasks |-> IF t = StaleCall THEN DocOf(StaleFund) ELSE NoDoc]
  /\ balance = [t \in Tasks |-> 0]
  /\ errorMessage = [t \in Tasks |-> NoErr]
  /\ responseData = [t \in Tasks |->
       IF t < last THEN StaleFund
       ELSE IF t = last THEN CrossedFund(TRUE, TRUE) ELSE NoData]
  /\ fundDb = CrossedFund(TRUE, TRUE)
  /\ users = CreditDonor(CreditDonor(nobody, "d1", entryA), "d1", entryB)
  /\ indexed = TxRefs
  /\ fundLamports = LamportsOfSol(FeeTransferAmount) + LamportsOfSol(AmountA + AmountB)
  /\ pumpLamports = [l \in LaunchIds |-> 0]
  /\ launch = [l \in LaunchIds |->
       IF l = last THEN [NoLaunch EXCEPT !.pc = "scheduled",
                                         !.totalSolToTransferX100 =
                                            TotalSolToTransferX100(AmountA + AmountB,
                                                                   FeeTransferAmount)]
       ELSE NoLaunch]
  /\ verify = NoVerify
  /\ NoOtherCalls

\* the waiting call runs on, the launches handed off run, and the creator requests one
\* manual launch; no awaited call fails
StaleLaunchReq == MinOf(LaunchReqs)
NextStale ==
  \/ GetBalance(StaleCall)
  \/ Credit(StaleCall)
  \/ SaveFund(StaleCall)
  \/ \E l \in LaunchIds : LaunchStep(l)
  \/ LaunchRequest(StaleLaunchReq, Creator)
  \/ LaunchCheck(StaleLaunchReq)
  \/ LaunchAccepted(StaleLaunchReq)

SpecStale == InitStale /\ [][NextStale]_vars

\* ------------------------------------------------------------ SpecVerify
\* one verifySolPayment call, poll by poll, over every short transaction
MaxInstr == 2
Sender == "d1"
LowLamports == 2
HighLamports == 3
InstrPool ==
  { Transfer(Sender, FundWallet, LowLamports),
    Transfer(Sender, FundWallet, HighLamports),
    Transfer("d2", FundWallet, HighLamports),
    Transfer(Sender, "other", HighLamports),
    [Transfer(Sender, FundWallet, HighLamports) EXCEPT !.program = "spl-token"],
    [Transfer(Sender, FundWallet, HighLamports) EXCEPT !.type = "createAccount"],
    [Transfer(Sender, FundWallet, HighLamports) EXCEPT !.parsed = FALSE] }
TxPool == UNION {[1..n -> InstrPool] : n \in 0..MaxInstr}
VerifyAmounts == {HighLamports * UnitsPerLamport - 1, HighLamports * UnitsPerLamport}

InitVerify ==
  /\ InitWith(TRUE, TRUE)
  /\ NoOtherCalls
  /\ \E instrs \in TxPool, a \in VerifyAmounts :
       verify = [pc |-> "polling", attempt |-> 0, instrs |-> instrs,
                 requiredAmount |-> a, isIndexed |-> FALSE, observed |-> "none",
                 result |-> "none"]

\* the ledger indexes the transaction while the caller polls
VerifyIndexed ==
  /\ verify.pc = "polling"
  /\ ~verify.isIndexed
  /\ verify' = [verify EXCEPT !.isIndexed = TRUE]
  /\ UNCHANGED <<donateVars, dbVars, ledgerVars, launchVars, tokens, create, xfer, utilVars>>

\* one iteration of the loop: getParsedTransaction answers or throws
VerifyPoll(rpcFails) ==
  /\ verify.pc = "polling"
  /\ LET observation == IF rpcFails THEN "rpcError"
                        ELSE IF verify.isIndexed THEN "indexed" ELSE "absent"
         r == VerifyAttempt(verify.attempt, observation, verify.instrs,
                            Sender, FundWallet, verify.requiredAmount)
     IN verify' = IF r = "retry"
                  THEN [verify EXCEPT !.attempt = @ + 1, !.observed = observation]
                  ELSE [verify EXCEPT !.observed = observation,
                                      !.pc = IF r \in {"true", "false"}
                                             THEN "returned" ELSE "threw",
                                      !.result = r]
  /\ UNCHANGED <<donateVars, dbVars, ledgerVars, launchVars, tokens, create, xfer, utilVars>>

NextVerify == VerifyIndexed \/ \E rpcFails \in BOOLEAN : VerifyPoll(rpcFails)

SpecVerify == InitVerify /\ [][NextVerify]_vars

\* ----------------------------------------------------------- SpecTransfer
\* POST /:id/transfer, next to the automatic launch that issues the token
MaxTransferReqs == 2
TransferReqs == 1..MaxTransferReqs
TransferCallers == {Creator, "d2", NoWallet}

\* calculateGasFeeReserve: ten times the fee of an empty message, which is
\* below one unit of the model, or the fallback of 0.05 SOL
EstimatedReserve == 0
FallbackReserve == 5
TransferGasReserves == {EstimatedReserve, FallbackReserve}

NoTransfer == [pc |-> "none", userWallet |-> NoWallet, doc |-> NoDoc,
               pumpBalance |-> 0, moved |-> 0, response |-> 0]
XferInFlight == {"find", "gas", "target", "pump", "send", "clear"}

\* the handler runs up to `await Fund.findById(id).populate(...)`
TransferRequest(x, userWallet) ==
  /\ xfer[x].pc = "none"
  /\ \A y \in TransferReqs : y < x => xfer[y].pc # "none"
  /\ xfer' = [xfer EXCEPT ![x].pc = IF userWallet = NoWallet THEN "done" ELSE "find",
                          ![x].userWallet = userWallet,
                          ![x].response = IF userWallet = NoWallet THEN 400 ELSE 0]
  /\ UNCHANGED <<donateVars, dbVars, ledgerVars, launchVars, verify, create, tokens, utilVars>>

\* the guards of the transfer handler, in order: the status of the refusal, 0 when passed
TransferRefusal(doc, userWallet) ==
  IF userWallet # Creator THEN 403
  ELSE IF doc.status # "completed" \/ doc.tokenAddress = 0 THEN 400
  ELSE IF ~HasWalletDetails(doc) THEN 400
  ELSE 0

\* findById resolved: the guards, then `await getBalance(pumpWallet)`
XferCheck(x) ==
  /\ xfer[x].pc = "find"
  /\ LET doc == DocOf(fundDb)
         refusal == TransferRefusal(doc, xfer[x].userWallet)
     IN xfer' = IF refusal # 0
                THEN [xfer EXCEPT ![x].pc = "done", ![x].response = refusal]
                ELSE [xfer EXCEPT ![x].pc = "gas", ![x].doc = doc]
  /\ UNCHANGED <<donateVars, dbVars, ledgerVars, launchVars, verify, create, tokens, utilVars>>

\* the pump wallet balance and the gas reserve are known: 400 when the balance
\* is below the reserve
XferGas(x, gasFeeReserve) ==
  /\ xfer[x].pc = "gas"
  /\ LET pumpWalletBalance ==
           SolOfLamports(pumpLamports[xfer[x].doc.pumpPortalWalletPublicKey])
     IN xfer' = IF pumpWalletBalance < gasFeeReserve
                THEN [xfer EXCEPT ![x].pc = "done", ![x].response = 400]
                ELSE [xfer EXCEPT ![x].pc = "target"]
  /\ UNCHANGED <<donateVars, dbVars, ledgerVars, launchVars, verify, create, tokens, utilVars>>

\* the target wallet's token account is read: with a holding the tokens count
\* as transferred already and launchError is cleared on the copy
XferTarget(x) ==
  /\ xfer[x].pc = "target"
  /\ xfer' = IF tokens.held[xfer[x].doc.tokenAddress].target > 0
             THEN [xfer EXCEPT ![x].pc = "clear"]
             ELSE [xfer EXCEPT ![x].pc = "pump"]
  /\ UNCHANGED <<donateVars, dbVars, ledgerVars, launchVars, verify, create, tokens, utilVars>>

\* the pump wallet's token account is read: 400 without tokens
XferPump(x) ==
  /\ xfer[x].pc = "pump"
  /\ LET pumpBalance == tokens.held[xfer[x].doc.tokenAddress].pump
     IN xfer' = IF pumpBalance = 0
                THEN [xfer EXCEPT ![x].pc = "done", ![x].response = 400]
                ELSE [xfer EXCEPT ![x].pc = "send", ![x].pumpBalance = pumpBalance]
  /\ UNCHANGED <<donateVars, dbVars, ledgerVars, launchVars, verify, create, tokens, utilVars>>

\* transfer(...) of the holding that was read; it throws when the account no
\* longer holds that much
XferSend(x) ==
  /\ xfer[x].pc = "send"
  /\ LET mint == xfer[x].doc.tokenAddress
         transferAmount == xfer[x].pumpBalance
     IN IF tokens.held[mint].pump < transferAmount
        THEN /\ xfer' = [xfer EXCEPT ![x].pc = "done", ![x].response = 500]
             /\ UNCHANGED tokens
        ELSE /\ tokens' = [tokens EXCEPT !.held[mint].pump = @ - transferAmount,
                                          !.held[mint].target = @ + transferAmount,
                                          !.held[mint].sent = @ + transferAmount]
             /\ xfer' = [xfer EXCEPT ![x].pc = "clear", ![x].moved = transferAmount]
  /\ UNCHANGED <<donateVars, dbVars, ledgerVars, launchVars, verify, create, utilVars>>

\* fund.launchError = null; `await fund.save()` resolved; the success message
XferSaved(x) ==
  /\ xfer[x].pc = "clear"
  /\ fundDb' = SaveDoc(fundDb, xfer[x].doc, [xfer[x].doc EXCEPT !.launchError = ""])
  /\ xfer' = [xfer EXCEPT ![x].pc = "done", ![x].response = 200]
  /\ UNCHANGED <<donateVars, users, ledgerVars, launchVars, verify, create, tokens, utilVars>>

\* an awaited store or ledger call rejects: asyncHandler passes the error on
XferRejects(x) ==
  /\ xfer[x].pc \in XferInFlight
  /\ xfer' = [xfer EXCEPT ![x].pc = "done", ![x].response = 500]
  /\ UNCHANGED <<donateVars, dbVars, ledgerVars, launchVars, verify, create, tokens, utilVars>>

\* the owner of the target wallet moves the tokens out of its token account
RecipientSpends(mint) ==
  /\ tokens.held[mint].target > 0
  /\ tokens' = [tokens EXCEPT !.held[mint].target = 0]
  /\ UNCHANGED <<donateVars, dbVars, ledgerVars, launchVars, callVars, utilVars>>

TransferNext ==
  \/ \E x \in TransferReqs, w \in TransferCallers : TransferRequest(x, w)
  \/ \E x \in TransferReqs : XferCheck(x)
  \/ \E x \in TransferReqs, g \in TransferGasReserves : XferGas(x, g)
  \/ \E x \in TransferReqs : XferTarget(x)
  \/ \E x \in TransferReqs : XferPump(x)
  \/ \E x \in TransferReqs : XferSend(x)
  \/ \E x \in TransferReqs : XferSaved(x)
  \/ \E x \in TransferReqs : XferRejects(x)
  \/ \E mint \in LaunchIds : RecipientSpends(mint)

\* the target was crossed and the automatic launch is scheduled; the creation
\* will buy less than the target's share, or more
BoughtAmounts == {TargetShare - 1, TargetShare + 1}
InitTransfer ==
  /\ \E img \in BOOLEAN, both \in BOOLEAN : Crossed(img, both)
  /\ verify = NoVerify
  /\ create = NoCreate
  /\ \E buys \in BoughtAmounts : tokens = NoTokens(buys)
  /\ xfer = [x \in TransferReqs |-> NoTransfer]
  /\ NoUtil

NextTransfer == CallbackNext \/ TransferNext

SpecTransfer == InitTransfer /\ [][NextTransfer]_vars

\* --------------------------------------------------------------- SpecWait
\* one call of waitWithRetries with the default retries and delay, which is
\* how every call site calls it
RETRY_DELAY == 1000
MAX_RETRIES == 8
RECURSIVE Pow2(_)
Pow2(n) == IF n = 0 THEN 1 ELSE 2 * Pow2(n - 1)

\* what one `await action()` followed by condition(result) comes to: the
\* condition held, it did not, or the action threw
WaitOutcomes == {"met", "unmet", "error"}

\* the state of the rest of the program while a helper is followed
UtilIdle ==
  /\ NoCalls /\ fundDb = NoFund /\ fundLamports = 0
  /\ verify = NoVerify /\ create = NoCreate /\ xfer = NoXfer
  /\ tokens = NoTokens(TargetShare + 1)

InitWait ==
  /\ UtilIdle
  /\ conn = NoConn
  /\ loop = [pc |-> "call", retries |-> MAX_RETRIES, delay |-> RETRY_DELAY, attempt |-> 0,
              outcomes |-> <<>>, waits |-> <<>>, error |-> ""]

\* a wait of the same length before every attempt
WaitTimeConstant(delay, attempt) == delay

\* waitTime = delay * Math.pow(2, attempt)
WaitTime(delay, attempt) == delay * Pow2(attempt)

\* one pass of the loop body: action() is awaited and its result tested; a
\* failure on the last attempt is rethrown, an earlier one starts the wait
WaitAttempt(outcome) ==
  /\ loop.pc = "call"
  /\ loop.attempt < loop.retries
  /\ LET l == [loop EXCEPT !.outcomes = Append(@, outcome)]
     IN loop' = IF outcome = "met" THEN [l EXCEPT !.pc = "returned"]
                ELSE IF loop.attempt = loop.retries - 1
                THEN [l EXCEPT !.pc = "threw", !.error = outcome]
                ELSE [l EXCEPT !.pc = "sleep",
                               !.waits = Append(@, WaitTime(loop.delay, loop.attempt))]
  /\ UNCHANGED <<donateVars, dbVars, ledgerVars, launchVars, callVars, tokens, conn>>

\* the timer of the wait fired: the next pass begins
WaitSlept ==
  /\ loop.pc = "sleep"
  /\ loop' = [loop EXCEPT !.pc = "call", !.attempt = @ + 1]
  /\ UNCHANGED <<donateVars, dbVars, ledgerVars, launchVars, callVars, tokens, conn>>

NextWait == (\E outcome \in WaitOutcomes : WaitAttempt(outcome)) \/ WaitSlept

SpecWait == InitWait /\ [][NextWait]_vars

\* -------------------------------------------------------------- SpecLoops
\* one call of each of the other retry loops, attempt by attempt: withRetry,
\* confirmTransaction, fetchWithRetry and the polling loop of verifySolPayment
WithRetryMaxRetries == 5
ConfirmMaxRetries == 3
FetchRetries == 3
LoopKinds == {"withRetry", "confirm", "fetch", "verify"}

\* what one pass of each loop can meet
LoopOutcomes(kind) ==
  CASE kind = "withRetry" -> {"ok", "429", "error"}
    [] kind = "confirm" -> {"ok", "txerr", "expired", "error"}
    [] kind = "fetch" -> {"ok", "429", "notok", "error"}
    [] kind = "verify" -> {"ok", "notfound", "error"}

InitLoops ==
  /\ UtilIdle
  /\ conn = NoConn
  /\ \E kind \in LoopKinds :
       loop = [kind |-> kind, pc |-> "call", attempt |-> 0, outcomes |-> <<>>]

\* withRetry retries after any error
WithRetryRetriesAll(outcome, attempt) == attempt < WithRetryMaxRetries

\* withRetry: error.message includes "429 Too Many Requests" && attempt < maxRetries
WithRetryRetries(outcome, attempt) == outcome = "429" /\ attempt < WithRetryMaxRetries

\* confirmTransaction, after attempt++: a TransactionExpiredTimeoutError && attempt < maxRetries
ConfirmRetries(outcome, attempt) == outcome = "expired" /\ attempt < ConfirmMaxRetries

\* one pass of the loop: the position and attempt counter it leaves
LoopPass(kind, attempt, outcome) ==
  CASE outcome = "ok" -> [pc |-> "returned", attempt |-> attempt]
    [] outcome # "ok" /\ kind = "withRetry" ->
         IF WithRetryRetries(outcome, attempt)
         THEN [pc |-> "sleep", attempt |-> attempt]
         ELSE [pc |-> "threw", attempt |-> attempt]
    [] outcome # "ok" /\ kind = "confirm" ->
         IF ConfirmRetries(outcome, attempt + 1)
         THEN [pc |-> "sleep", attempt |-> attempt + 1]
         ELSE [pc |-> "threw", attempt |-> attempt + 1]
    [] outcome # "ok" /\ kind = "fetch" ->
         IF outcome = "429" \/ attempt # FetchRetries - 1
         THEN [pc |-> "sleep", attempt |-> attempt]
         ELSE [pc |-> "threw", attempt |-> attempt]
    [] outcome # "ok" /\ kind = "verify" ->
         IF attempt = maxRetries - 1
         THEN [pc |-> "threw", attempt |-> attempt]
         ELSE [pc |-> "sleep", attempt |-> attempt]

\* the awaited call of a pass settled
LoopAttempt(outcome) ==
  /\ loop.pc = "call"
  /\ outcome \in LoopOutcomes(loop.kind)
  /\ LET pass == LoopPass(loop.kind, loop.attempt, outcome)
     IN loop' = [loop EXCEPT !.pc = pass.pc, !.attempt = pass.attempt,
                             !.outcomes = Append(@, outcome)]
  /\ UNCHANGED <<donateVars, dbVars, ledgerVars, launchVars, callVars, tokens, conn>>

\* the timer fired: the loop header is evaluated again; confirmTransaction
\* has counted its attempt already, and a for loop that runs out throws
LoopSlept ==
  /\ loop.pc = "sleep"
  /\ LET next == IF loop.kind = "confirm" THEN loop.attempt ELSE loop.attempt + 1
         runsOut == \/ loop.kind = "withRetry" /\ next > WithRetryMaxRetries
                    \/ loop.kind = "confirm" /\ next >= ConfirmMaxRetries
                    \/ loop.kind = "fetch" /\ next >= FetchRetries
                    \/ loop.kind = "verify" /\ next >= maxRetries
     IN loop' = [loop EXCEPT !.attempt = next,
                             !.pc = IF runsOut THEN "threw" ELSE "call"]
  /\ UNCHANGED <<donateVars, dbVars, ledgerVars, launchVars, callVars, tokens, conn>>

NextLoops ==
  \/ \E outcome \in {"ok", "429", "error", "txerr", "expired", "notok", "notfound"} :
       LoopAttempt(outcome)
  \/ LoopSlept

SpecLoops == InitLoops /\ [][NextLoops]_vars

\* ------------------------------------------------------------- SpecCreate
\* POST /funds once verifySolPayment has accepted the creator's fee payment
MaxDeposits == 1
CROWD_FUND_CREATION_FEE == 100 * UnitsPerLamport

\* 100 * transferAmount: 99% of the creation fee
CreateTransferAmountX100(fee) == 99 * fee

\* the treasury (website wallet) balance, in lamports: short of the transfer,
\* enough for the transfer but not for a refund, and enough for both
TreasuryBalances ==
  LET fee == LamportsOfSol(CROWD_FUND_CREATION_FEE)
  IN {fee - 1, fee, fee + 1, 2 * fee + 1}

\* the handler stands after verifySolPayment, before connection.confirmTransaction;
\* the fund record is not in the store
InitCreate ==
  /\ NoCalls
  /\ fundDb = NoFund
  /\ fundLamports = 0
  /\ verify = NoVerify
  /\ xfer = NoXfer
  /\ tokens = NoTokens(TargetShare + 1)
  /\ NoUtil
  /\ \E b \in TreasuryBalances, g \in GasReserves, img \in BOOLEAN :
       create = [pc |-> "confirm", treasury |-> b, gasReserve |-> g, image |-> img,
                 faults |-> 0, cause |-> "", refundAttempted |-> FALSE, refundDue |-> FALSE,
                 refunded |-> 0, deposits |-> 0, response |-> 0]

CreateIdle == <<donateVars, users, indexed, launchVars, verify, xfer, tokens, utilVars>>

\* an awaited call may reject while the budget of faults lasts
MayFail(fails) == fails => create.faults < MaxFaults
Fault(fails) == IF fails THEN 1 ELSE 0

\* the try block throws: the catch begins with `await getBalance(websiteWallet)`
Caught(cause) == [create EXCEPT !.pc = "refundBalance", !.cause = cause, !.faults = @ + 1]

\* getLatestBlockhash and confirmTransaction: 400 when the confirmation throws;
\* otherwise the Fund is built and calculateGasFeeReserve answers
CreateConfirm(fails) ==
  /\ create.pc = "confirm"
  /\ MayFail(fails)
  /\ create' = IF fails
               THEN [create EXCEPT !.pc = "done", !.response = 400, !.cause = "confirm",
                                   !.faults = @ + 1]
               ELSE [create EXCEPT !.pc = "save"]
  /\ UNCHANGED <<CreateIdle, fundDb, fundLamports>>

\* try: `await fund.save()` with initialFeePaid 0
CreateSave(fails) ==
  /\ create.pc = "save"
  /\ MayFail(fails)
  /\ IF fails
     THEN /\ create' = Caught("persist")
          /\ UNCHANGED fundDb
     ELSE /\ fundDb' = NewFund(0, create.image)
          /\ create' = [create EXCEPT !.pc = "balance"]
  /\ UNCHANGED <<CreateIdle, fundLamports>>

\* the treasury balance is read and compared with transferAmount + gasReserve
CreateBalance(fails) ==
  /\ create.pc = "balance"
  /\ MayFail(fails)
  /\ LET websiteBalance == SolOfLamports(create.treasury)
     IN create' = IF fails THEN Caught("ledger")
                  ELSE IF 100 * websiteBalance
                          < CreateTransferAmountX100(CROWD_FUND_CREATION_FEE)
                            + 100 * create.gasReserve
                  THEN [create EXCEPT !.pc = "refundBalance", !.cause = "short"]
                  ELSE [create EXCEPT !.pc = "transfer"]
  /\ UNCHANGED <<CreateIdle, fundDb, fundLamports>>

\* transferSol(websiteWallet, fundWallet, transferAmount): the lamports are
\* floored; when it throws, the transfer has landed or has not
CreateTransfer(fails, landed) ==
  /\ create.pc = "transfer"
  /\ MayFail(fails)
  /\ ~fails => landed
  /\ LET lamports == CreateTransferAmountX100(CROWD_FUND_CREATION_FEE)
                     \div (100 * UnitsPerLamport)
         sent == IF landed /\ lamports <= create.treasury THEN lamports ELSE 0
         c == [create EXCEPT !.treasury = @ - sent]
     IN /\ fundLamports' = fundLamports + sent
        /\ create' = IF fails \/ sent = 0
                     THEN [c EXCEPT !.pc = "refundBalance", !.cause = "transfer",
                                    !.faults = @ + Fault(fails)]
                     ELSE [c EXCEPT !.pc = "paid"]
  /\ UNCHANGED <<CreateIdle, fundDb>>

\* fund.initialFeePaid = transferAmount; `await fund.save()`; 201
CreatePaid(fails) ==
  /\ create.pc = "paid"
  /\ MayFail(fails)
  /\ IF fails
     THEN /\ create' = Caught("persist")
          /\ UNCHANGED fundDb
     ELSE /\ fundDb' = [fundDb EXCEPT !.initialFeePaid =
                          CreateTransferAmountX100(CROWD_FUND_CREATION_FEE) \div 100]
          /\ create' = [create EXCEPT !.pc = "done", !.response = 201]
  /\ UNCHANGED <<CreateIdle, fundLamports>>

\* the treasury holds refundAmount + gasReserve
RefundCovered(websiteBalance, gasReserve) ==
  websiteBalance >= CROWD_FUND_CREATION_FEE + gasReserve

\* catch: the treasury balance is read; the refund is sent when it is covered.
\* A throw of getBalance is caught and logged, and no refund is sent
CreateRefundBalance(fails) ==
  /\ create.pc = "refundBalance"
  /\ MayFail(fails)
  /\ LET covered == RefundCovered(SolOfLamports(create.treasury), create.gasReserve)
         c == [create EXCEPT !.refundDue = covered, !.faults = @ + Fault(fails)]
     IN create' = IF ~fails /\ covered
                  THEN [c EXCEPT !.pc = "refund"]
                  ELSE [c EXCEPT !.pc = "delete"]
  /\ UNCHANGED <<CreateIdle, fundDb, fundLamports>>

\* transferSol(websiteWallet, userWallet, refundAmount); a throw is caught and logged
CreateRefund(fails, landed) ==
  /\ create.pc = "refund"
  /\ MayFail(fails)
  /\ ~fails => landed
  /\ LET lamports == LamportsOfSol(CROWD_FUND_CREATION_FEE)
         sent == IF landed /\ lamports <= create.treasury THEN lamports ELSE 0
     IN create' = [create EXCEPT !.pc = "delete", !.refundAttempted = TRUE,
                                 !.treasury = @ - sent, !.refunded = @ + sent,
                                 !.faults = @ + Fault(fails)]
  /\ UNCHANGED <<CreateIdle, fundDb, fundLamports>>

\* Fund.findByIdAndDelete(fund._id), then 500; when the delete rejects,
\* asyncHandler passes the error on and the record stays
CreateDelete(fails) ==
  /\ create.pc = "delete"
  /\ MayFail(fails)
  /\ fundDb' = IF fails THEN fundDb ELSE NoFund
  /\ create' = [create EXCEPT !.pc = "done", !.response = 500, !.faults = @ + Fault(fails)]
  /\ UNCHANGED <<CreateIdle, fundLamports>>

\* another creator's fee payment reaches the treasury
TreasuryReceives ==
  /\ create.pc # "done"
  /\ create.deposits < MaxDeposits
  /\ create' = [create EXCEPT !.treasury = @ + LamportsOfSol(CROWD_FUND_CREATION_FEE),
                              !.deposits = @ + 1]
  /\ UNCHANGED <<CreateIdle, fundDb, fundLamports>>

NextCreate ==
  \/ \E fails \in BOOLEAN : CreateConfirm(fails)
  \/ \E fails \in BOOLEAN : CreateSave(fails)
  \/ \E fails \in BOOLEAN : CreateBalance(fails)
  \/ \E fails \in BOOLEAN, landed \in BOOLEAN : CreateTransfer(fails, landed)
  \/ \E fails \in BOOLEAN : CreatePaid(fails)
  \/ \E fails \in BOOLEAN : CreateRefundBalance(fails)
  \/ \E fails \in BOOLEAN, landed \in BOOLEAN : CreateRefund(fails, landed)
  \/ \E fails \in BOOLEAN : CreateDelete(fails)
  \/ TreasuryReceives

SpecCreate == InitCreate /\ [][NextCreate]_vars

\* -------------------------------------------------------------- SpecUsers
\* the handlers that write User documents: donate, POST /users/register (and
\* the same find-or-create in POST /funds), PUT /users/update/:walletAddress
Names == {"ann", "bob"}

\* User.findOne found nothing: `new User({ walletAddress }).save()`
RegisterUser(w) ==
  /\ ~users[w].exists
  /\ users' = [users EXCEPT ![w] = [NoUser EXCEPT !.exists = TRUE]]
  /\ UNCHANGED <<donateVars, fundDb, ledgerVars, launchVars, otherVars>>

\* User.findOneAndUpdate({walletAddress}, {$set: {name, email}}); 404 without the user
UpdateUser(w, name) ==
  /\ users[w].exists
  /\ users[w].name # name
  /\ users' = [users EXCEPT ![w].name = name]
  /\ UNCHANGED <<donateVars, fundDb, ledgerVars, launchVars, otherVars>>

UserRequests ==
  { RequestA, RequestB,
    [id |-> FundId, amount |-> AmountA, donorWallet |-> "d2", txSignature |-> "txA"],
    [id |-> FundId, amount |-> 0 - AmountA, donorWallet |-> "d1", txSignature |-> "txA"] }

NextUsers ==
  \/ DonateNext(Callers, UserRequests, TxRefs)
  \/ \E w \in Donors : RegisterUser(w)
  \/ \E w \in Donors, name \in Names : UpdateUser(w, name)

InitUsers ==
  /\ InitWith(TRUE, TRUE)
  /\ verify = NoVerify
  /\ NoOtherCalls

SpecUsers == InitUsers /\ [][NextUsers]_vars

\* ================================================================ claims
Launched == {l \in Tasks : launch[l].pc # "none"}

\* C1: for one campaign, under any interleaving of queued contribute tasks, at
\* most one task persists the completed status and hands off the launch: the
\* background launch is scheduled at most once.
C1_SingleHandoff == Cardinality(Launched) <= 1

\* the donation entries credited for the transaction reference x
CreditedFor(x) ==
  {t \in Tasks : /\ req[t].txSignature = x
                 /\ \E w \in Donors : \E i \in 1..Len(users[w].donations) :
                      users[w].donations[i].id = t}

\* C2: a transaction reference causes at most one Contribution record (and one
\* totalDonatedSol increment), even when it is submitted in several calls.
C2_OncePerReference == \A x \in TxRefs : Cardinality(CreditedFor(x)) <= 1

\* C3: a contribute call that runs against the campaign while its stored
\* status is completed never gets past the completed check: its steps leave
\* the Campaign and every Contributor unchanged, and it ends with an error.
C3_CompletedRejects ==
  [][\A t \in Tasks :
       (/\ fundDb.status = "completed"
        /\ req'[t].id = FundId
        /\ pc[t] \in {"idle", "import", "gas", "findFund"}
        /\ pc'[t] # pc[t])
       => /\ fundDb' = fundDb
          /\ users' = users
          /\ pc'[t] \in {"import", "queued", "gas", "findFund", "done", "threw"}
          /\ (pc'[t] = "done" => errorMessage'[t] # NoErr /\ responseData'[t] = NoData)]_vars

C3_Witness ==
  /\ fundDb.status = "completed"
  /\ \E t \in Tasks : pc[t] = "done" /\ errorMessage[t] = ErrCompleted

\* C4: a contribute call whose amount is below MIN_DONATION or above
\* MAX_DONATION ends with an error, its steps leave the Campaign and every
\* Contributor unchanged, and it never reaches payment verification or the
\* balance read.
C4_OutOfRangeRejects ==
  [][\A t \in Tasks :
       (/\ req'[t] # NoReq
        /\ (req'[t].amount < MIN_DONATION \/ req'[t].amount > MAX_DONATION)
        /\ pc[t] # "queued"
        /\ pc'[t] # pc[t])
       => /\ fundDb' = fundDb
          /\ users' = users
          /\ pc'[t] \in {"import", "queued", "gas", "done"}
          /\ (pc'[t] = "done" => errorMessage'[t] # NoErr /\ responseData'[t] = NoData)]_vars

C4_Witness ==
  \E t, u \in Tasks :
    /\ pc[t] = "done" /\ errorMessage[t] = ErrAmount /\ req[t].amount > MAX_DONATION
    /\ pc[u] = "done" /\ errorMessage[u] = ErrAmount /\ req[u].amount < MIN_DONATION

\* C5: the stored status never goes back from completed; it becomes completed
\* only by the save of a contribute task whose running total
\* max(0, balance - initialFeePaid) is at least the target; the save of a task
\* whose running total is below the target does not change the stored status,
\* and that task's own result reports active.
C5_StatusOneWay ==
  [][/\ (fundDb.status = "completed" => fundDb'.status = "completed")
     /\ (fundDb.status # fundDb'.status
         => /\ fundDb.status = "active"
            /\ fundDb'.status = "completed"
            /\ \E t \in Tasks :
                 /\ pc[t] = "save"
                 /\ pc'[t] = "done"
                 /\ fund[t].currentDonatedSol = Max(0, balance[t] - fund[t].initialFeePaid)
                 /\ fund[t].currentDonatedSol >= TargetSolAmount)
     /\ \A t \in Tasks :
          (/\ pc[t] = "save"
           /\ pc'[t] = "done"
           /\ fund[t].currentDonatedSol < TargetSolAmount)
          => /\ fundDb'.status = fundDb.status
             /\ responseData'[t].status = "active"]_vars

C5_Witness ==
  /\ fundDb.status = "completed"
  /\ \E t, u \in Tasks :
       /\ pc[t] = "done" /\ responseData[t] # NoData /\ responseData[t].status = "active"
       /\ pc[u] = "done" /\ responseData[u] # NoData /\ responseData[u].status = "completed"

\* the transaction of request r is indexed and holds a system transfer from the
\* donor to the fund wallet of at least floor(amount * LAMPORTS_PER_SOL) lamports
PaidOnLedger(r) ==
  /\ r.txSignature \in indexed
  /\ \E i \in 1..Len(TxInstructions(r.txSignature)) :
       LET instr == TxInstructions(r.txSignature)[i]
       IN /\ instr.parsed /\ instr.program = "system" /\ instr.type = "transfer"
          /\ instr.source = r.donorWallet
          /\ instr.destination = FundWallet
          /\ instr.lamports >= LamportsOfSol(r.amount)

\* C6: a Contributor record changes only by the credit step of a task whose
\* payment is verified on the ledger, which appends one Contribution and adds
\* its amount; a task whose verification fails changes neither the Campaign
\* nor any Contributor.
C6_CreditAfterVerify ==
  [][/\ \A w \in Donors :
          users'[w] # users[w]
          => \E t \in Tasks :
               /\ pc[t] = "credit"
               /\ pc'[t] # "credit"
               /\ req[t].donorWallet = w
               /\ PaidOnLedger(req[t])
               /\ Len(users'[w].donations) = Len(users[w].donations) + 1
               /\ users'[w].totalDonatedSol = users[w].totalDonatedSol + req[t].amount
     /\ \A t \in Tasks :
          (pc[t] = "verify" /\ pc'[t] \in {"done", "threw"})
          => fundDb' = fundDb /\ users' = users]_vars

C6_Witness ==
  /\ users["d1"].donations # <<>>
  /\ \E t \in Tasks :
       /\ pc[t] = "threw"
       /\ req[t].txSignature \in indexed
       /\ req[t].amount = AmountB
       /\ ~PaidOnLedger(req[t])

\* some plain system transfer of the transaction goes from the sender to the
\* receiver and carries at least floor(requiredAmount * LAMPORTS_PER_SOL)
SomeSufficientTransfer(instrs, sender, receiver, requiredAmount) ==
  \E i \in 1..Len(instrs) :
    /\ instrs[i].parsed /\ instrs[i].program = "system" /\ instrs[i].type = "transfer"
    /\ instrs[i].source = sender
    /\ instrs[i].destination = receiver
    /\ instrs[i].lamports >= LamportsOfSol(requiredAmount)

\* C7: for an indexed transaction verifySolPayment succeeds if and only if some
\* plain system transfer has the expected source and destination and at least
\* floor(requiredAmount * 10^9) lamports.
C7_SucceedsIffSomeTransfer ==
  (verify.pc \in {"returned", "threw"} /\ verify.observed = "indexed")
  => (verify.result = "true"
      <=> SomeSufficientTransfer(verify.instrs, Sender, FundWallet, verify.requiredAmount))

\* C8: verifySolPayment raises an exception only for an infrastructure error
\* on the last attempt (the RPC call failing, the transaction never indexed);
\* on an indexed transaction that fails the check it returns false.
C8_ThrowsOnlyInfra ==
  /\ (verify.pc = "threw" => verify.result \in {"rpcError", "notFound"})
  /\ (verify.pc \in {"returned", "threw"} /\ verify.observed = "indexed"
      /\ ~SomeSufficientTransfer(verify.instrs, Sender, FundWallet, verify.requiredAmount)
      => verify.pc = "returned" /\ verify.result = "false")

\* C9: at every moment at most 2 contribution tasks are executing, the calls
\* that arrive before the queue is constructed included.
C9_AtMostTwoExecuting == Cardinality({t \in Tasks : pc[t] \in Executing}) <= 2

InFlight == {l \in LaunchIds : launch[l].pc \in InOrchestrator}

\* C10: at most one run of createAndLaunchTokenWithLightning is in flight for
\* the campaign at any time; a manual launch issued while the automatic launch
\* is running is refused.
C10_SingleOrchestration == Cardinality(InFlight) <= 1

\* C11: once the campaign's tokenAddress is set, no step changes or clears it,
\* and every launch request checked afterwards is refused.
C11_TokenAddressSetOnce ==
  [][fundDb.tokenAddress # 0
     => /\ fundDb'.tokenAddress = fundDb.tokenAddress
        /\ \A m \in LaunchReqs :
             (launch[m].pc = "find" /\ launch'[m].pc # "find")
             => launch'[m].pc \in {"refused", "crashed"}]_vars

\* launchStatus of the campaign record as read back from the store
StoredLaunchStatus(db) == DocOf(db).launchStatus

\* C12: when a launch attempt succeeds, the stored campaign record has
\* tokenAddress set, launchStatus = completed and launchError = null.
C12_SuccessPersisted ==
  [][\A l \in LaunchIds :
       (launch[l].pc = "sweep" /\ launch'[l].pc = "completed")
       => /\ fundDb'.tokenAddress # 0
          /\ StoredLaunchStatus(fundDb') = "completed"
          /\ fundDb'.launchError = ""]_vars

\* C13: when a launch attempt fails, the stored campaign record has
\* launchStatus = failed, launchError carrying the causing message and
\* tokenAddress unset; launchStatus = failed implies tokenAddress unset.
C13_FailurePersisted ==
  [][/\ \A l \in LaunchIds :
          (launch[l].pc # "failed" /\ launch'[l].pc = "failed")
          => /\ StoredLaunchStatus(fundDb') = "failed"
             /\ fundDb'.launchError = launch'[l].error
             /\ fundDb'.launchError # ""
             /\ fundDb'.tokenAddress = 0
     /\ (StoredLaunchStatus(fundDb') = "failed" => fundDb'.tokenAddress = 0)]_vars

\* C14: an orchestrator run that loaded the campaign with
\* pumpPortalTransferCompleted = true skips the funding transfer: its funding
\* step moves no SOL out of the fund wallet and goes on to the balance check,
\* in every such run.
C14_FlagSkipsTransfer ==
  [][\A l \in LaunchIds :
       (/\ launch[l].pc = "fund"
        /\ launch'[l].pc # "fund"
        /\ launch[l].odoc.pumpPortalTransferCompleted)
       => /\ fundLamports' = fundLamports
          /\ pumpLamports' = pumpLamports
          /\ launch'[l].sent = 0
          /\ \/ launch'[l].pc \in {"check", "crashed"}
             \/ launch'[l].pc = "failed" /\ launch'[l].error = ErrLaunch]_vars

\* two runs found the flag set while the pump wallet was short, and sent nothing
C14_Witness ==
  \E l, r \in LaunchIds :
    /\ l # r
    /\ \A k \in {l, r} :
         /\ launch[k].pc = "failed"
         /\ launch[k].error = ErrPumpShort
         /\ launch[k].odoc.pumpPortalTransferCompleted
         /\ launch[k].sent = 0

\* C15: after a restart that hit between the funding transfer and the save of
\* pumpPortalTransferCompleted, a retried launch does not fail on the
\* shortfall, sends no more than what is still missing in the pump wallet, and
\* when it completes pumpPortalTransferCompleted = true is stored.
C15_CrashRecovery ==
  \A l, r \in LaunchIds :
    (launch[l].crashedAt = "flag" /\ launch[r].epoch > 0)
    => /\ launch[r].error # ErrFundShort
       /\ 100 * SolOfLamports(launch[r].sent)
            <= Max(0, TotalForX100(l) - 100 * SolOfLamports(launch[l].sent))
       /\ (launch[r].pc = "completed" => fundDb.pumpPortalTransferCompleted)

\* C16: once a launch attempt has failed and nothing outside fails any more, a
\* retried launch that was accepted leads to the campaign being launched.
C16_RetryCompletes ==
  \A m \in LaunchReqs :
    (launch[m].pc = "scheduled" /\ Cardinality(Faults) = MaxFaults)
    ~> (fundDb.tokenAddress # 0)

\* C17: a PumpPortal wallet is created at most once per campaign, never when
\* one is stored, and SOL is sent only to the wallet stored in the campaign
\* record at the time of the transfer.
C17_WalletOnce ==
  [][\A l \in LaunchIds :
       /\ (launch[l].pc = "wallet" /\ launch'[l].pc = "fund")
          => /\ fundDb.pumpPortalWalletPublicKey = 0
             /\ \A k \in LaunchIds : launch[k].wallet # k
       /\ (launch[l].pc = "fund" /\ launch'[l].pc = "flag")
          => fundDb.pumpPortalWalletPublicKey = launch[l].wallet]_vars

\* C18: the task that crosses the target hands the launch
\* totalSolToTransfer = donated - 1% of donated + 70% of initialFeePaid, with
\* donated = the balance it read - initialFeePaid; the launch keeps that amount.
C18_HandoffAmount ==
  [][\A t \in Tasks :
       /\ (pc[t] = "save" /\ launch'[t].pc = "scheduled" /\ launch[t].pc = "none")
          => LET donated == balance[t] - fund[t].initialFeePaid
             IN launch'[t].totalSolToTransferX100 =
                  100 * donated - donated + 70 * fund[t].initialFeePaid
       /\ (launch[t].pc # "none"
           => launch'[t].totalSolToTransferX100 = launch[t].totalSolToTransferX100)]_vars

C18_Witness ==
  \E t \in Tasks :
    /\ launch[t].pc = "orch"
    /\ launch[t].totalSolToTransferX100 = 99 * (AmountA + AmountB) + 70 * FeeTransferAmount

\* C19: after a successful contribute call the stored currentDonatedSol is
\* max(0, b - initialFeePaid), b the balance that call read; never negative.
C19_BalanceSourced ==
  [][\A t \in Tasks :
       (pc[t] = "save" /\ pc'[t] = "done")
       => /\ fundDb'.currentDonatedSol = Max(0, balance[t] - fund[t].initialFeePaid)
          /\ fundDb'.currentDonatedSol >= 0]_vars

\* the conditions under which POST /:id/launch may accept
MayLaunch(m) ==
  /\ launch[m].userWallet = Creator
  /\ fundDb.status = "completed"
  /\ fundDb.tokenAddress = 0

\* C20: a launch request is accepted only from the creator, on a completed
\* campaign without tokenAddress; any other request is answered with an error,
\* leaves the campaign record unchanged and never starts a launch.
C20_LaunchGuards ==
  [][\A m \in LaunchReqs :
       /\ (launch[m].pc = "find" /\ launch'[m].pc = "save") => MayLaunch(m)
       /\ (launch[m].pc = "find" /\ launch'[m].pc # "find" /\ ~MayLaunch(m))
          => launch'[m].pc \in {"refused", "crashed"}
       /\ (launch[m].pc # "refused" /\ launch'[m].pc = "refused")
          => launch'[m].response \in {400, 403} /\ fundDb' = fundDb
       /\ (launch[m].pc = "refused" => launch'[m] = launch[m])
       /\ (launch[m].pc \notin {"save", "scheduled"} => launch'[m].pc # "scheduled")]_vars

C20_Witness ==
  \E m, n \in LaunchReqs :
    /\ launch[m].pc = "refused" /\ launch[m].response = 403
    /\ launch[n].pc = "orch" /\ launch[n].response = 202

\* C21: a transfer call by the creator that is answered while the target
\* wallet's token account already holds tokens of the fund's token, and that has
\* moved nothing itself, answers with success and moves no tokens.
C21_TransferIdempotent ==
  [][\A x \in TransferReqs :
       (/\ xfer[x].pc \in XferInFlight
        /\ xfer'[x].pc = "done"
        /\ xfer'[x].response # 500
        /\ xfer[x].userWallet = Creator
        /\ xfer[x].moved = 0
        /\ fundDb.tokenAddress # 0
        /\ tokens.held[fundDb.tokenAddress].target > 0)
       => (xfer'[x].response = 200 /\ tokens' = tokens)]_vars

\* C25: when Step 1 transfers, the lamports sent are the shortfall: the
\* required total (min(donated, target) plus 70% of initialFeePaid) less the
\* pump wallet balance that was read.
C25_SendsShortfall ==
  \A l \in LaunchIds :
    launch[l].pc = "flag"
    => launch[l].sent = (TotalForX100(l) - 100 * SolOfLamports(launch[l].pumpBefore))
                        \div (100 * UnitsPerLamport)

\* C26: the stored pumpPortalTransferCompleted becomes true only in the step
\* of a launch whose transfer was sent and whose pump wallet balance is read back
\* at least the amount sent above the balance before; a launch that fails
\* after its transfer leaves the stored flag as it was.
C26_FlagAfterVerification ==
  [][/\ (~fundDb.pumpPortalTransferCompleted /\ fundDb'.pumpPortalTransferCompleted)
        => \E l \in LaunchIds :
             /\ launch[l].pc = "flag" /\ launch'[l].pc = "check"
             /\ launch[l].sent > 0
             /\ pumpLamports[launch[l].wallet] >= launch[l].pumpBefore + launch[l].sent
     /\ \A l \in LaunchIds :
          (launch[l].pc = "flag" /\ launch'[l].pc = "failed")
          => fundDb'.pumpPortalTransferCompleted = fundDb.pumpPortalTransferCompleted]_vars

C26_Witness ==
  /\ fundDb.pumpPortalTransferCompleted
  /\ \E l \in LaunchIds : launch[l].pc = "check" /\ launch[l].sent > 0

\* C30: the distribute step moves min(holding of the pump wallet, the target's
\* share) from the pump wallet's token account to the target's, and the launch
\* goes on to succeed only when the target's account reads exactly that amount.
C30_DistributeAmount ==
  [][\A l \in LaunchIds :
       /\ (launch[l].pc = "distribute" /\ launch'[l].pc = "distributed")
          => LET holding == tokens.held[l].pump
                 amount == IF holding <= TargetShare THEN holding ELSE TargetShare
             IN /\ tokens'.held[l].target = tokens.held[l].target + amount
                /\ tokens'.held[l].pump = holding - amount
                /\ launch'[l].transferAmount = amount
       /\ (launch[l].pc = "distributed" /\ launch'[l].pc = "sweep")
          => tokens.held[l].target = launch[l].transferAmount]_vars

C30_Witness ==
  \E l \in LaunchIds :
    /\ launch[l].pc = "completed"
    /\ tokens.buys > TargetShare
    /\ tokens.held[l].target = TargetShare
    /\ tokens.held[l].pump = tokens.buys - TargetShare

\* C23: when POST /funds has failed after the fee payment was verified, the
\* treasury being short or a store, ledger or transfer call having thrown in
\* the try block, no Fund record of it is stored, an error was answered, and a
\* refund was attempted exactly when the treasury held the fee plus the reserve.
C23_FailureCompensated ==
  (create.pc = "done" /\ create.cause \in {"short", "persist", "ledger", "transfer"})
  => /\ fundDb = NoFund
     /\ create.response >= 400
     /\ create.refundAttempted <=> create.refundDue

\* C22: no step removes a stored User, lowers its totalDonatedSol, or changes
\* or removes an entry of its donations: the list only grows at its end.
C22_ContributorAppendOnly ==
  [][\A w \in Donors :
       /\ users[w].exists => users'[w].exists
       /\ users'[w].totalDonatedSol >= users[w].totalDonatedSol
       /\ Len(users'[w].donations) >= Len(users[w].donations)
       /\ SubSeq(users'[w].donations, 1, Len(users[w].donations)) = users[w].donations]_vars

C22_Witness ==
  \E w \in Donors :
    /\ Len(users[w].donations) = 2
    /\ users[w].totalDonatedSol = AmountA + AmountB
    /\ users[w].name # ""


\* C24: without a restart and with the store answering, every launch attempt
\* that starts ends with launchStatus stored as completed or failed; a failure
\* inside the orchestrator leaves neither a pending launchStatus nor a missing
\* launchError in the store.
C24_AttemptEndsPersisted ==
  [][\A l \in LaunchIds :
       (/\ launch[l].pc \in ({"scheduled"} \cup InOrchestrator)
        /\ launch'[l].pc \in {"completed", "failed"})
       => /\ StoredLaunchStatus(fundDb') \in {"completed", "failed"}
          /\ launch'[l].pc = "failed" => fundDb'.launchError = launch'[l].error]_vars


\* C27: once a crossing donation has handed the launch off, the store holds
\* the campaign as completed and the donate call already has its response, the
\* completed campaign, whatever step the launch is at.
C27_CompletedBeforeLaunch ==
  \A t \in Tasks :
    launch[t].pc # "none"
    => /\ IsCompleted(fundDb)
       /\ pc[t] = "done"
       /\ errorMessage[t] = NoErr
       /\ IsCompleted(responseData[t])

\* a crossing donation's launch is inside the orchestrator, unfinished, and
\* its caller has the completed campaign
C27_Witness ==
  \E t \in Tasks :
    /\ launch[t].pc \in InOrchestrator
    /\ pc[t] = "done"
    /\ IsCompleted(responseData[t])


\* C28: a donate call answers once, after its task has settled: no slot is
\* set while the task is queued or running, a task that returned has exactly
\* one of errorMessage and responseData set, so the call never answers 500 for
\* an empty pair of slots, and a settled call's slots and answer never change.
C28_OneSlotOneResponse ==
  [][\A t \in Tasks :
       /\ pc'[t] \notin {"done", "threw"}
          => (errorMessage'[t] = NoErr /\ responseData'[t] = NoData /\ ResponseOf(t)' = 0)
       /\ pc'[t] = "done"
          => /\ (errorMessage'[t] # NoErr) # (responseData'[t] # NoData)
             /\ ResponseOf(t)' \in {200, 400}
       /\ pc[t] \in {"done", "threw"}
          => /\ ResponseOf(t)' = ResponseOf(t)
             /\ errorMessage'[t] = errorMessage[t]
             /\ responseData'[t] = responseData[t]]_vars

\* one call has answered 400 from the error slot and another 200 from the
\* result slot
C28_Witness ==
  \E t, u \in Tasks :
    /\ ResponseOf(t) = 400 /\ responseData[t] = NoData
    /\ ResponseOf(u) = 200 /\ errorMessage[u] = NoErr


\* C31: waitWithRetries calls action between once and `retries` times, returns
\* at the first attempt whose result meets the condition and calls no more,
\* waits delay * 2^k after failed attempt k when another follows, and after
\* `retries` failures throws the last attempt's error with no wait after it.
C31_BoundedBackoff ==
  [][LET l == loop'
         calls == Len(l.outcomes)
     IN /\ calls <= l.retries
        /\ \A k \in 1..Len(l.waits) : l.waits[k] = l.delay * Pow2(k - 1)
        /\ \A k \in 1..(calls - 1) : l.outcomes[k] # "met"
        /\ l.pc = "returned"
           => /\ calls >= 1 /\ l.outcomes[calls] = "met"
              /\ Len(l.waits) = calls - 1
        /\ l.pc = "threw"
           => /\ calls = l.retries /\ calls >= 1
              /\ l.error = l.outcomes[calls] /\ l.error # "met"
              /\ Len(l.waits) = l.retries - 1
        /\ loop.pc \in {"returned", "threw"} => loop' = loop]_vars

\* the call returned on its last attempt, after seven failures and a last
\* wait of 64 delays
C31_Witness ==
  /\ loop.pc = "returned"
  /\ Len(loop.outcomes) = MAX_RETRIES
  /\ loop.waits[MAX_RETRIES - 1] = 64 * RETRY_DELAY


\* C32: each retry loop is bounded: verifySolPayment polls at most 10 times,
\* withRetry calls at most 6 times and goes round again only after a 429,
\* confirmTransaction tries at most 3 times and again only after a timeout
\* expiry, fetchWithRetry requests at most 3 times; a loop that has made its
\* last call returns or throws, and stays so.
C32_LoopsBounded ==
  [][LET l == loop'
         calls == Len(l.outcomes)
         most == CASE l.kind = "verify" -> 10
                   [] l.kind = "withRetry" -> 6
                   [] l.kind = "confirm" -> 3
                   [] l.kind = "fetch" -> 3
     IN /\ calls <= most
        /\ l.pc = "call" => calls < most
        /\ (l.pc = "sleep" /\ loop.pc = "call" /\ l.kind = "withRetry")
           => l.outcomes[calls] = "429"
        /\ (l.pc = "sleep" /\ loop.pc = "call" /\ l.kind = "confirm")
           => l.outcomes[calls] = "expired"
        /\ loop.pc \in {"returned", "threw"} => loop' = loop]_vars

\* fetchWithRetry has thrown after three responses of 429
C32_Witness ==
  /\ loop.kind = "fetch"
  /\ loop.pc = "threw"
  /\ loop.outcomes = <<"429", "429", "429">>


\* C33: the donation queue and the ledger connection are each constructed at
\* most once: all calls that obtained a queue hold the same queue, and all
\* calls of getConnection got the one Connection that was constructed.
C33_Singletons ==
  /\ \A t, u \in Tasks :
       (myQueue[t] # NoQueue /\ myQueue[u] # NoQueue) => myQueue[t] = myQueue[u]
  /\ conn # NoConn
     => /\ conn.built = 1
        /\ \A t \in DOMAIN conn.got : conn.got[t] = conn.instance


\* C34: whenever the stored campaign is completed, its stored
\* currentDonatedSol is at least targetSolAmount; no donate task that loaded
\* the campaign while it was active lowers it afterwards.
C34_CompletedHoldsTarget ==
  IsCompleted(fundDb) => fundDb.currentDonatedSol >= TargetSolAmount


C36_OnePayout == ~(fundLamports > 0 /\ create.refunded > 0)


\* C37: the tokens of one issue that the distribute step and the transfer
\* calls have sent to the target wallet never add up to more than the target's
\* share of the supply.
C37_SentWithinShare == \A mint \in LaunchIds : tokens.held[mint].sent <= TargetShare


\* C38: a launch attempt that issued the token and read the distributed
\* amount on the target's account ends completed, with tokenAddress and
\* launchStatus = completed stored, also when the sweep of the pump wallet fails.
C38_VerifiedLaunchCompletes ==
  [][\A l \in LaunchIds :
       (launch[l].pc = "sweep" /\ launch'[l].pc \notin {"sweep", "crashed"})
       => /\ launch'[l].pc = "completed"
          /\ fundDb'.tokenAddress = l
          /\ StoredLaunchStatus(fundDb') = "completed"]_vars

\* C39: the SOL the orchestrator asks PumpPortal to spend on the creation
\* (solForCreation) exceeds neither targetSolAmount nor the donated amount of
\* the fund it loaded, and totalSolForPump is solForCreation plus 70% of
\* initialFeePaid; calculateSolForPump has not thrown for the launch that
\* reaches the creation
C39_CreationWithinDonated ==
  \A l \in LaunchIds :
    launch[l].pc = "issue"
    => LET solForCreationX100 == SolForCreationX100(DonatedSolX100(l), TargetSolAmount)
       IN /\ ~InvalidInput(DonatedSolX100(l), launch[l].doc.initialFeePaid, TargetSolAmount)
          /\ solForCreationX100 <= 100 * TargetSolAmount
          /\ solForCreationX100 <= 100 * launch[l].odoc.currentDonatedSol
          /\ TotalForX100(l) = solForCreationX100 + 70 * launch[l].doc.initialFeePaid

====
